---------------------------- MODULE Spec2Model ----------------------------
(***************************************************************************)
(* The Cloudscape MCP server: its static catalog, the list_resources and   *)
(* read_resource handlers, the two tools search_components and             *)
(* get_component_recommendation, and the two prompt handlers.              *)
(*                                                                         *)
(* A JavaScript string is modelled as the sequence of its characters, each *)
(* character a one-character TLA+ string, so that substring search, case   *)
(* conversion and the regular-expression match of the URI are computed on  *)
(* the text itself.  The character U+2013 (en dash) is written "U+2013".   *)
(* A JavaScript object is modelled as the sequence of its own entries      *)
(* <<key, value>> in insertion order, which is the order Object.keys,      *)
(* Object.values and Object.entries enumerate string keys in.              *)
(***************************************************************************)
EXTENDS Integers, Sequences, FiniteSets, TLC

\* Longest generated search query, in characters.
MaxQueryLen == 3
\* Largest number of vocabulary words concatenated into a use-case text.
MaxWords == 3
\* Largest number of requests one session sends to the server.
MaxRequests == 3

---------------------------------------------------------------------------
(* The string literals of the program and of the requests of the model,    *)
(* each with its text.                                                     *)

\* "constructor"
S_constructor == <<"c", "o", "n", "s", "t", "r", "u", "c", "t", "o", "r">>
\* "toString"
S_toString == <<"t", "o", "S", "t", "r", "i", "n", "g">>
\* "toLocaleString"
S_toLocaleString == <<"t", "o", "L", "o", "c", "a", "l", "e", "S", "t", "r", "i", "n", "g">>
\* "valueOf"
S_valueOf == <<"v", "a", "l", "u", "e", "O", "f">>
\* "hasOwnProperty"
S_hasOwnProperty == <<"h", "a", "s", "O", "w", "n", "P", "r", "o", "p", "e", "r", "t", "y">>
\* "isPrototypeOf"
S_isPrototypeOf == <<"i", "s", "P", "r", "o", "t", "o", "t", "y", "p", "e", "O", "f">>
\* "propertyIsEnumerable"
S_propertyIsEnumerable == <<"p", "r", "o", "p", "e", "r", "t", "y", "I", "s", "E", "n", "u", "m",
        "e", "r", "a", "b", "l", "e">>
\* "__proto__"
S___proto__ == <<"_", "_", "p", "r", "o", "t", "o", "_", "_">>
\* "Object"
S_Object == <<"O", "b", "j", "e", "c", "t">>
\* "undefined"
S_undefined == <<"u", "n", "d", "e", "f", "i", "n", "e", "d">>
\* "Container"
S_Container == <<"C", "o", "n", "t", "a", "i", "n", "e", "r">>
\* "Navigation"
S_Navigation == <<"N", "a", "v", "i", "g", "a", "t", "i", "o", "n">>
\* "Form"
S_Form == <<"F", "o", "r", "m">>
\* "Table"
S_Table == <<"T", "a", "b", "l", "e">>
\* "Chart"
S_Chart == <<"C", "h", "a", "r", "t">>
\* "Text"
S_Text == <<"T", "e", "x", "t">>
\* "Notification"
S_Notification == <<"N", "o", "t", "i", "f", "i", "c", "a", "t", "i", "o", "n">>
\* "Overlay"
S_Overlay == <<"O", "v", "e", "r", "l", "a", "y">>
\* "Other"
S_Other == <<"O", "t", "h", "e", "r">>
\* "box"
S_box == <<"b", "o", "x">>
\* "header"
S_header == <<"h", "e", "a", "d", "e", "r">>
\* "button"
S_button == <<"b", "u", "t", "t", "o", "n">>
\* "table"
S_table == <<"t", "a", "b", "l", "e">>
\* "alert"
S_alert == <<"a", "l", "e", "r", "t">>
\* "form"
S_form == <<"f", "o", "r", "m">>
\* "cloudscape://"
S_cloudscapeColonSlashSlash == <<"c", "l", "o", "u", "d", "s", "c", "a", "p", "e", ":", "/", "/">>
\* "Cannot read properties of undefined"
S_Cannot_read_properties_of_undefined == <<"C", "a", "n", "n", "o", "t", " ", "r", "e", "a", "d",
        " ", "p", "r", "o", "p", "e", "r", "t", "i", "e", "s", " ", "o", "f", " ", "u", "n", "d",
        "e", "f", "i", "n", "e", "d">>
\* "# "
S_Hash_ == <<"#", " ">>
\* "### "
S_HashHashHash_ == <<"#", "#", "#", " ">>
\* "- "
S_Dash_ == <<"-", " ">>
\* "- [Component Documentation]("
S_Dash_LBracketComponent_DocumentationRBra == <<"-", " ", "[", "C", "o", "m", "p", "o", "n", "e",
        "n", "t", " ", "D", "o", "c", "u", "m", "e", "n", "t", "a", "t", "i", "o", "n", "]", "(">>
\* ")"
S_RParen == <<")">>
\* "- [Design Guidelines]("
S_Dash_LBracketDesign_GuidelinesRBracketLP == <<"-", " ", "[", "D", "e", "s", "i", "g", "n", " ",
        "G", "u", "i", "d", "e", "l", "i", "n", "e", "s", "]", "(">>
\* "- ["
S_Dash_LBracket == <<"-", " ", "[">>
\* "]("
S_RBracketLParen == <<"]", "(">>
\* "): "
S_RParenColon_ == <<")", ":", " ">>
\* " Components"
S__Components == <<" ", "C", "o", "m", "p", "o", "n", "e", "n", "t", "s">>
\* "No components in this category yet."
S_No_components_in_this_category_yetDot == <<"N", "o", " ", "c", "o", "m", "p", "o", "n", "e", "n",
        "t", "s", " ", "i", "n", " ", "t", "h", "i", "s", " ", "c", "a", "t", "e", "g", "o", "r",
        "y", " ", "y", "e", "t", ".">>
\* "Invalid resource URI format: "
S_Invalid_resource_URI_formatColon_ == <<"I", "n", "v", "a", "l", "i", "d", " ", "r", "e", "s",
        "o", "u", "r", "c", "e", " ", "U", "R", "I", " ", "f", "o", "r", "m", "a", "t", ":", " ">>
\* "component"
S_component == <<"c", "o", "m", "p", "o", "n", "e", "n", "t">>
\* "Component "
S_Component_ == <<"C", "o", "m", "p", "o", "n", "e", "n", "t", " ">>
\* " not found"
S__not_found == <<" ", "n", "o", "t", " ", "f", "o", "u", "n", "d">>
\* "pattern"
S_pattern == <<"p", "a", "t", "t", "e", "r", "n">>
\* "Pattern "
S_Pattern_ == <<"P", "a", "t", "t", "e", "r", "n", " ">>
\* "category"
S_category == <<"c", "a", "t", "e", "g", "o", "r", "y">>
\* "Category "
S_Category_ == <<"C", "a", "t", "e", "g", "o", "r", "y", " ">>
\* "Unknown resource type: "
S_Unknown_resource_typeColon_ == <<"U", "n", "k", "n", "o", "w", "n", " ", "r", "e", "s", "o", "u",
        "r", "c", "e", " ", "t", "y", "p", "e", ":", " ">>
\* "x"
S_x == <<"x">>
\* "cloudscape:/"
S_cloudscapeColonSlash == <<"c", "l", "o", "u", "d", "s", "c", "a", "p", "e", ":", "/">>
\* "https://"
S_httpsColonSlashSlash == <<"h", "t", "t", "p", "s", ":", "/", "/">>
\* "Component"
S_Component == <<"C", "o", "m", "p", "o", "n", "e", "n", "t">>
\* "tool"
S_tool == <<"t", "o", "o", "l">>
\* "/"
S_Slash == <<"/">>
\* "does-not-exist"
S_does_not_exist == <<"d", "o", "e", "s", "-", "n", "o", "t", "-", "e", "x", "i", "s", "t">>
\* "empty-state"
S_empty_state == <<"e", "m", "p", "t", "y", "-", "s", "t", "a", "t", "e">>
\* "not-a-valid-uri"
S_not_a_valid_uri == <<"n", "o", "t", "-", "a", "-", "v", "a", "l", "i", "d", "-", "u", "r", "i">>
\* "cloudscape://component/button/examples"
S_cloudscapeColonSlashSlashcomponentSlashb == <<"c", "l", "o", "u", "d", "s", "c", "a", "p", "e",
        ":", "/", "/", "c", "o", "m", "p", "o", "n", "e", "n", "t", "/", "b", "u", "t", "t", "o",
        "n", "/", "e", "x", "a", "m", "p", "l", "e", "s">>
\* "cloudscape://component/button\nsecond line"
S_cloudscapeColonSlashSlashcomponentSlashb_2 == <<"c", "l", "o", "u", "d", "s", "c", "a", "p", "e",
        ":", "/", "/", "c", "o", "m", "p", "o", "n", "e", "n", "t", "/", "b", "u", "t", "t", "o",
        "n", "\n", "s", "e", "c", "o", "n", "d", " ", "l", "i", "n", "e">>
\* "cloudscape://component/\nbutton on the second line"
S_cloudscapeColonSlashSlashcomponentSlashN == <<"c", "l", "o", "u", "d", "s", "c", "a", "p", "e",
        ":", "/", "/", "c", "o", "m", "p", "o", "n", "e", "n", "t", "/", "\n", "b", "u", "t", "t",
        "o", "n", " ", "o", "n", " ", "t", "h", "e", " ", "s", "e", "c", "o", "n", "d", " ", "l",
        "i", "n", "e">>
\* "cloudscape://x/cloudscape://pattern/empty-state"
S_cloudscapeColonSlashSlashxSlashcloudscap == <<"c", "l", "o", "u", "d", "s", "c", "a", "p", "e",
        ":", "/", "/", "x", "/", "c", "l", "o", "u", "d", "s", "c", "a", "p", "e", ":", "/", "/",
        "p", "a", "t", "t", "e", "r", "n", "/", "e", "m", "p", "t", "y", "-", "s", "t", "a", "t",
        "e">>
\* "cloudscape://component/header"
S_cloudscapeColonSlashSlashcomponentSlashh == <<"c", "l", "o", "u", "d", "s", "c", "a", "p", "e",
        ":", "/", "/", "c", "o", "m", "p", "o", "n", "e", "n", "t", "/", "h", "e", "a", "d", "e",
        "r">>
\* "cloudscape://component/box"
S_cloudscapeColonSlashSlashcomponentSlashb_3 == <<"c", "l", "o", "u", "d", "s", "c", "a", "p", "e",
        ":", "/", "/", "c", "o", "m", "p", "o", "n", "e", "n", "t", "/", "b", "o", "x">>
\* "cloudscape://component/alert"
S_cloudscapeColonSlashSlashcomponentSlasha == <<"c", "l", "o", "u", "d", "s", "c", "a", "p", "e",
        ":", "/", "/", "c", "o", "m", "p", "o", "n", "e", "n", "t", "/", "a", "l", "e", "r", "t">>
\* "cloudscape://component/"
S_cloudscapeColonSlashSlashcomponentSlash == <<"c", "l", "o", "u", "d", "s", "c", "a", "p", "e",
        ":", "/", "/", "c", "o", "m", "p", "o", "n", "e", "n", "t", "/">>
\* " ("
S__LParen == <<" ", "(">>
\* "cloudscape://pattern/"
S_cloudscapeColonSlashSlashpatternSlash == <<"c", "l", "o", "u", "d", "s", "c", "a", "p", "e", ":",
        "/", "/", "p", "a", "t", "t", "e", "r", "n", "/">>
\* "cloudscape://category/"
S_cloudscapeColonSlashSlashcategorySlash == <<"c", "l", "o", "u", "d", "s", "c", "a", "p", "e",
        ":", "/", "/", "c", "a", "t", "e", "g", "o", "r", "y", "/">>
\* "Overview of all "
S_Overview_of_all_ == <<"O", "v", "e", "r", "v", "i", "e", "w", " ", "o", "f", " ", "a", "l", "l",
        " ">>
\* " components in Cloudscape"
S__components_in_Cloudscape == <<" ", "c", "o", "m", "p", "o", "n", "e", "n", "t", "s", " ", "i",
        "n", " ", "C", "l", "o", "u", "d", "s", "c", "a", "p", "e">>
\* "No components found matching \""
S_No_components_found_matching_Quote == <<"N", "o", " ", "c", "o", "m", "p", "o", "n", "e", "n",
        "t", "s", " ", "f", "o", "u", "n", "d", " ", "m", "a", "t", "c", "h", "i", "n", "g", " ",
        "\"">>
\* "\""
S_Quote == <<"\"">>
\* " in category "
S__in_category_ == <<" ", "i", "n", " ", "c", "a", "t", "e", "g", "o", "r", "y", " ">>
\* "."
S_Dot == <<".">>
\* "# Search Results for \""
S_Hash_Search_Results_for_Quote == <<"#", " ", "S", "e", "a", "r", "c", "h", " ", "R", "e", "s",
        "u", "l", "t", "s", " ", "f", "o", "r", " ", "\"">>
\* "## ["
S_HashHash_LBracket == <<"#", "#", " ", "[">>
\* "**Category:** "
S_StarStarCategoryColonStarStar_ == <<"*", "*", "C", "a", "t", "e", "g", "o", "r", "y", ":", "*",
        "*", " ">>
\* "**Usage:** "
S_StarStarUsageColonStarStar_ == <<"*", "*", "U", "s", "a", "g", "e", ":", "*", "*", " ">>
\* "..."
S_DotDotDot == <<".", ".", ".">>
\* "input text"
S_input_text == <<"i", "n", "p", "u", "t", " ", "t", "e", "x", "t">>
\* "input"
S_input == <<"i", "n", "p", "u", "t">>
\* "text"
S_text == <<"t", "e", "x", "t">>
\* "BUTTON"
S_BUTTON == <<"B", "U", "T", "T", "O", "N">>
\* "Button"
S_Button == <<"B", "u", "t", "t", "o", "n">>
\* "Forms collect"
S_Forms_collect == <<"F", "o", "r", "m", "s", " ", "c", "o", "l", "l", "e", "c", "t">>
\* "data"
S_data == <<"d", "a", "t", "a">>
\* "no such thing"
S_no_such_thing == <<"n", "o", " ", "s", "u", "c", "h", " ", "t", "h", "i", "n", "g">>
\* "click"
S_click == <<"c", "l", "i", "c", "k">>
\* "action"
S_action == <<"a", "c", "t", "i", "o", "n">>
\* "submit"
S_submit == <<"s", "u", "b", "m", "i", "t">>
\* "cancel"
S_cancel == <<"c", "a", "n", "c", "e", "l">>
\* "grid"
S_grid == <<"g", "r", "i", "d">>
\* "row"
S_row == <<"r", "o", "w">>
\* "column"
S_column == <<"c", "o", "l", "u", "m", "n">>
\* "list"
S_list == <<"l", "i", "s", "t">>
\* "items"
S_items == <<"i", "t", "e", "m", "s">>
\* "field"
S_field == <<"f", "i", "e", "l", "d">>
\* "validation"
S_validation == <<"v", "a", "l", "i", "d", "a", "t", "i", "o", "n">>
\* "enter data"
S_enter_data == <<"e", "n", "t", "e", "r", " ", "d", "a", "t", "a">>
\* "title"
S_title == <<"t", "i", "t", "l", "e">>
\* "heading"
S_heading == <<"h", "e", "a", "d", "i", "n", "g">>
\* "page title"
S_page_title == <<"p", "a", "g", "e", " ", "t", "i", "t", "l", "e">>
\* "section title"
S_section_title == <<"s", "e", "c", "t", "i", "o", "n", " ", "t", "i", "t", "l", "e">>
\* "container"
S_container == <<"c", "o", "n", "t", "a", "i", "n", "e", "r">>
\* "group"
S_group == <<"g", "r", "o", "u", "p">>
\* "section"
S_section == <<"s", "e", "c", "t", "i", "o", "n">>
\* "panel"
S_panel == <<"p", "a", "n", "e", "l">>
\* "message"
S_message == <<"m", "e", "s", "s", "a", "g", "e">>
\* "notification"
S_notification == <<"n", "o", "t", "i", "f", "i", "c", "a", "t", "i", "o", "n">>
\* "warning"
S_warning == <<"w", "a", "r", "n", "i", "n", "g">>
\* "error"
S_error == <<"e", "r", "r", "o", "r">>
\* "success"
S_success == <<"s", "u", "c", "c", "e", "s", "s">>
\* "info"
S_info == <<"i", "n", "f", "o">>
\* "modal"
S_modal == <<"m", "o", "d", "a", "l">>
\* "dialog"
S_dialog == <<"d", "i", "a", "l", "o", "g">>
\* "I couldn't find specific component recommendations for \""
S_I_couldnt_find_specific_component_recomm == <<"I", " ", "c", "o", "u", "l", "d", "n", "'", "t",
        " ", "f", "i", "n", "d", " ", "s", "p", "e", "c", "i", "f", "i", "c", " ", "c", "o", "m",
        "p", "o", "n", "e", "n", "t", " ", "r", "e", "c", "o", "m", "m", "e", "n", "d", "a", "t",
        "i", "o", "n", "s", " ", "f", "o", "r", " ", "\"">>
\* "\". Consider browsing the available components by category to find what you need."
S_QuoteDot_Consider_browsing_the_available == <<"\"", ".", " ", "C", "o", "n", "s", "i", "d", "e",
        "r", " ", "b", "r", "o", "w", "s", "i", "n", "g", " ", "t", "h", "e", " ", "a", "v", "a",
        "i", "l", "a", "b", "l", "e", " ", "c", "o", "m", "p", "o", "n", "e", "n", "t", "s", " ",
        "b", "y", " ", "c", "a", "t", "e", "g", "o", "r", "y", " ", "t", "o", " ", "f", "i", "n",
        "d", " ", "w", "h", "a", "t", " ", "y", "o", "u", " ", "n", "e", "e", "d", ".">>
\* "# Recommended Components for \""
S_Hash_Recommended_Components_for_Quote == <<"#", " ", "R", "e", "c", "o", "m", "m", "e", "n", "d",
        "e", "d", " ", "C", "o", "m", "p", "o", "n", "e", "n", "t", "s", " ", "f", "o", "r", " ",
        "\"">>
\* "Click"
S_Click == <<"C", "l", "i", "c", "k">>
\* " "
S__ == <<" ">>
\* "I need a way to show tabular data with sorting and filtering"
S_I_need_a_way_to_show_tabular_data_with_s == <<"I", " ", "n", "e", "e", "d", " ", "a", " ", "w",
        "a", "y", " ", "t", "o", " ", "s", "h", "o", "w", " ", "t", "a", "b", "u", "l", "a", "r",
        " ", "d", "a", "t", "a", " ", "w", "i", "t", "h", " ", "s", "o", "r", "t", "i", "n", "g",
        " ", "a", "n", "d", " ", "f", "i", "l", "t", "e", "r", "i", "n", "g">>
\* "show an error message in a panel"
S_show_an_error_message_in_a_panel == <<"s", "h", "o", "w", " ", "a", "n", " ", "e", "r", "r", "o",
        "r", " ", "m", "e", "s", "s", "a", "g", "e", " ", "i", "n", " ", "a", " ", "p", "a", "n",
        "e", "l">>
\* "cloudscape_best_practices"
S_cloudscape_best_practices == <<"c", "l", "o", "u", "d", "s", "c", "a", "p", "e", "_", "b", "e",
        "s", "t", "_", "p", "r", "a", "c", "t", "i", "c", "e", "s">>
\* "aws_console_patterns"
S_aws_console_patterns == <<"a", "w", "s", "_", "c", "o", "n", "s", "o", "l", "e", "_", "p", "a",
        "t", "t", "e", "r", "n", "s">>
\* "- **"
S_Dash_StarStar == <<"-", " ", "*", "*">>
\* ":** "
S_ColonStarStar_ == <<":", "*", "*", " ">>
\* "Unknown prompt: "
S_Unknown_promptColon_ == <<"U", "n", "k", "n", "o", "w", "n", " ", "p", "r", "o", "m", "p", "t",
        ":", " ">>
\* "no_such_prompt"
S_no_such_prompt == <<"n", "o", "_", "s", "u", "c", "h", "_", "p", "r", "o", "m", "p", "t">>
\* "Pattern"
S_Pattern == <<"P", "a", "t", "t", "e", "r", "n">>
\* "Category"
S_Category == <<"C", "a", "t", "e", "g", "o", "r", "y">>
---------------------------------------------------------------------------
(* String.prototype: toLowerCase, includes, substring.                     *)

UpperCaseLetters ==
    << "A", "B", "C", "D", "E", "F", "G", "H", "I", "J", "K", "L", "M",
       "N", "O", "P", "Q", "R", "S", "T", "U", "V", "W", "X", "Y", "Z" >>

LowerCaseLetters ==
    << "a", "b", "c", "d", "e", "f", "g", "h", "i", "j", "k", "l", "m",
       "n", "o", "p", "q", "r", "s", "t", "u", "v", "w", "x", "y", "z" >>

\* Character map of toLowerCase: A-Z go to a-z; every other character of the
\* model's alphabet (digits, punctuation, a-z, U+00DF, U+2013) is unchanged.
LowerCaseMap ==
    [c \in {UpperCaseLetters[i] : i \in 1..26} |->
        LowerCaseLetters[CHOOSE i \in 1..26 : UpperCaseLetters[i] = c]]

toLowerCase(s) ==
    [i \in 1..Len(s) |-> IF s[i] \in DOMAIN LowerCaseMap THEN LowerCaseMap[s[i]] ELSE s[i]]

\* s.includes(sub): sub occurs in s as a contiguous run; the empty string
\* occurs in every string.
includes(s, sub) ==
    \/ sub = << >>
    \/ \E i \in 1..(Len(s) - Len(sub) + 1) :
          s[i] = sub[1] /\ SubSeq(s, i, i + Len(sub) - 1) = sub

\* s.substring(0, n - 1): one character short.
substring_oneShort(s, n) == SubSeq(s, 1, IF n - 1 < Len(s) THEN n - 1 ELSE Len(s))

\* s.substring(0, n)
substring(s, n) == SubSeq(s, 1, IF n < Len(s) THEN n ELSE Len(s))

---------------------------------------------------------------------------
(* Objects: own entries in insertion order, and the properties every       *)
(* object literal inherits from Object.prototype.                          *)

OwnKeys(obj) == [i \in 1..Len(obj) |-> obj[i][1]]
OwnValues(obj) == [i \in 1..Len(obj) |-> obj[i][2]]
HasOwn(obj, key) == \E i \in 1..Len(obj) : obj[i][1] = key

\* Names an object literal inherits: functions of Object.prototype, and
\* __proto__, whose value is Object.prototype itself.
ObjectPrototypeFunctions ==
    { S_constructor, S_toString, S_toLocaleString, S_valueOf,
      S_hasOwnProperty, S_isPrototypeOf, S_propertyIsEnumerable }
ObjectPrototypeProperties == ObjectPrototypeFunctions \cup { S___proto__ }

\* The value of an inherited property: a function object, whose own name
\* property is the function's name (the constructor is the function Object),
\* or the prototype object, which has no name.  It is truthy and has none of
\* the catalog fields.
Inherited(key) ==
    IF key = S_constructor THEN [inherited |-> TRUE, name |-> S_Object]
    ELSE IF key \in ObjectPrototypeFunctions THEN [inherited |-> TRUE, name |-> key]
    ELSE [inherited |-> TRUE]

\* obj[key] is not undefined.  (Every value stored in the objects of this
\* program is truthy, so this is also the test "obj[key]" in a condition.)
HasProperty(obj, key) == HasOwn(obj, key) \/ key \in ObjectPrototypeProperties

\* obj[key], where it is not undefined
Get(obj, key) ==
    IF HasOwn(obj, key) THEN obj[CHOOSE i \in 1..Len(obj) : obj[i][1] = key][2]
    ELSE Inherited(key)

\* value.field is not undefined
HasField(value, field) == field \in DOMAIN value

\* ${value.field} in a template literal: undefined prints as "undefined".
Interpolate(value, field) == IF HasField(value, field) THEN value[field] ELSE S_undefined

---------------------------------------------------------------------------
(* The shipped catalog.                                                    *)

ComponentCategory_CONTAINER == S_Container
ComponentCategory_NAVIGATION == S_Navigation
ComponentCategory_FORM == S_Form
ComponentCategory_TABLE == S_Table
ComponentCategory_CHART == S_Chart
ComponentCategory_TEXT == S_Text
ComponentCategory_NOTIFICATION == S_Notification
ComponentCategory_OVERLAY == S_Overlay
ComponentCategory_OTHER == S_Other

\* Object.values(ComponentCategory), in declaration order.
ComponentCategory ==
    << ComponentCategory_CONTAINER, ComponentCategory_NAVIGATION, ComponentCategory_FORM,
       ComponentCategory_TABLE, ComponentCategory_CHART, ComponentCategory_TEXT,
       ComponentCategory_NOTIFICATION, ComponentCategory_OVERLAY, ComponentCategory_OTHER >>

button_name ==
    << "B", "u", "t", "t", "o", "n" >>
button_description ==
    << "B", "u", "t", "t", "o", "n", "s", " ", "r", "e", "p", "r", "e", "s", "e", "n", "t", " ",
            "a",
       "c", "t", "i", "o", "n", "s", " ", "t", "h", "a", "t", " ", "u", "s", "e", "r", "s", " ",
               "c",
       "a", "n", " ", "t", "a", "k", "e", "." >>
button_usage ==
    << "U", "s", "e", " ", "b", "u", "t", "t", "o", "n", "s", " ", "t", "o", " ", "e", "n", "a",
            "b",
       "l", "e", " ", "u", "s", "e", "r", "s", " ", "t", "o", " ", "p", "e", "r", "f", "o", "r",
               "m",
       " ", "a", "c", "t", "i", "o", "n", "s", " ", "s", "u", "c", "h", " ", "a", "s", " ", "s",
               "u",
       "b", "m", "i", "t", "t", "i", "n", "g", " ", "a", " ", "f", "o", "r", "m", ",", " ", "c",
               "o",
       "n", "f", "i", "r", "m", "i", "n", "g", " ", "a", " ", "d", "e", "c", "i", "s", "i", "o",
               "n",
       ",", " ", "o", "r", " ", "n", "a", "v", "i", "g", "a", "t", "i", "n", "g", " ", "b", "e",
               "t",
       "w", "e", "e", "n", " ", "p", "a", "g", "e", "s", ".", " ", "C", "l", "o", "u", "d", "s",
               "c",
       "a", "p", "e", " ", "p", "r", "o", "v", "i", "d", "e", "s", " ", "d", "i", "f", "f", "e",
               "r",
       "e", "n", "t", " ", "v", "a", "r", "i", "a", "t", "i", "o", "n", "s", " ", "o", "f", " ",
               "b",
       "u", "t", "t", "o", "n", "s", " ", "f", "o", "r", " ", "d", "i", "f", "f", "e", "r", "e",
               "n",
       "t", " ", "u", "s", "e", " ", "c", "a", "s", "e", "s", "." >>
button_example1_title ==
    << "P", "r", "i", "m", "a", "r", "y", " ", "b", "u", "t", "t", "o", "n" >>
button_example2_title ==
    << "N", "o", "r", "m", "a", "l", " ", "b", "u", "t", "t", "o", "n" >>
button_example3_title ==
    << "B", "u", "t", "t", "o", "n", " ", "w", "i", "t", "h", " ", "i", "c", "o", "n" >>
button_bestPractice1 ==
    << "U", "s", "e", " ", "p", "r", "i", "m", "a", "r", "y", " ", "b", "u", "t", "t", "o", "n",
            "s",
       " ", "s", "p", "a", "r", "i", "n", "g", "l", "y", " ", "U+2013", " ", "o", "n", "l", "y",
               " ",
       "o", "n", "e", " ", "p", "r", "i", "m", "a", "r", "y", " ", "b", "u", "t", "t", "o", "n",
               " ",
       "p", "e", "r", " ", "p", "a", "g", "e", " ", "o", "r", " ", "c", "o", "n", "t", "a", "i",
               "n",
       "e", "r" >>
button_bestPractice2 ==
    << "U", "s", "e", " ", "c", "l", "e", "a", "r", ",", " ", "a", "c", "t", "i", "o", "n", "-",
            "o",
       "r", "i", "e", "n", "t", "e", "d", " ", "t", "e", "x", "t", " ", "f", "o", "r", " ", "b",
               "u",
       "t", "t", "o", "n", " ", "l", "a", "b", "e", "l", "s" >>
button_bestPractice3 ==
    << "P", "o", "s", "i", "t", "i", "o", "n", " ", "p", "r", "i", "m", "a", "r", "y", " ", "a",
            "c",
       "t", "i", "o", "n", "s", " ", "o", "n", " ", "t", "h", "e", " ", "r", "i", "g", "h", "t",
               " ",
       "a", "n", "d", " ", "s", "e", "c", "o", "n", "d", "a", "r", "y", " ", "a", "c", "t", "i",
               "o",
       "n", "s", " ", "l", "i", "k", "e", " ", "'", "C", "a", "n", "c", "e", "l", "'", " ", "o",
               "n",
       " ", "t", "h", "e", " ", "l", "e", "f", "t" >>
button_bestPractice4 ==
    << "U", "s", "e", " ", "l", "i", "n", "k", " ", "b", "u", "t", "t", "o", "n", "s", " ", "f",
            "o",
       "r", " ", "n", "a", "v", "i", "g", "a", "t", "i", "o", "n", " ", "a", "n", "d", " ", "r",
               "e",
       "g", "u", "l", "a", "r", " ", "b", "u", "t", "t", "o", "n", "s", " ", "f", "o", "r", " ",
               "a",
       "c", "t", "i", "o", "n", "s" >>
button_documentation ==
    << "h", "t", "t", "p", "s", ":", "/", "/", "c", "l", "o", "u", "d", "s", "c", "a", "p", "e",
            ".",
       "d", "e", "s", "i", "g", "n", "/", "c", "o", "m", "p", "o", "n", "e", "n", "t", "s", "/",
               "b",
       "u", "t", "t", "o", "n", "/" >>
button_designGuidelines ==
    << "h", "t", "t", "p", "s", ":", "/", "/", "c", "l", "o", "u", "d", "s", "c", "a", "p", "e",
            ".",
       "d", "e", "s", "i", "g", "n", "/", "d", "e", "s", "i", "g", "n", "/", "p", "a", "t", "t",
               "e",
       "r", "n", "s", "/", "b", "u", "t", "t", "o", "n", "s", "/" >>
table_name ==
    << "T", "a", "b", "l", "e" >>
table_description ==
    << "T", "a", "b", "l", "e", "s", " ", "d", "i", "s", "p", "l", "a", "y", " ", "d", "a", "t",
            "a",
       " ", "i", "n", " ", "a", " ", "s", "t", "r", "u", "c", "t", "u", "r", "e", "d", " ", "f",
               "o",
       "r", "m", "a", "t", " ", "w", "i", "t", "h", " ", "r", "o", "w", "s", " ", "a", "n", "d",
               " ",
       "c", "o", "l", "u", "m", "n", "s", "." >>
table_usage ==
    << "U", "s", "e", " ", "t", "a", "b", "l", "e", "s", " ", "t", "o", " ", "p", "r", "e", "s",
            "e",
       "n", "t", " ", "s", "t", "r", "u", "c", "t", "u", "r", "e", "d", " ", "d", "a", "t", "a",
               " ",
       "t", "h", "a", "t", " ", "u", "s", "e", "r", "s", " ", "n", "e", "e", "d", " ", "t", "o",
               " ",
       "s", "c", "a", "n", ",", " ", "c", "o", "m", "p", "a", "r", "e", ",", " ", "o", "r", " ",
               "a",
       "n", "a", "l", "y", "z", "e", ".", " ", "C", "l", "o", "u", "d", "s", "c", "a", "p", "e",
               " ",
       "t", "a", "b", "l", "e", "s", " ", "o", "f", "f", "e", "r", " ", "b", "u", "i", "l", "t",
               "-",
       "i", "n", " ", "s", "o", "r", "t", "i", "n", "g", ",", " ", "f", "i", "l", "t", "e", "r",
               "i",
       "n", "g", ",", " ", "p", "a", "g", "i", "n", "a", "t", "i", "o", "n", ",", " ", "a", "n",
               "d",
       " ", "s", "e", "l", "e", "c", "t", "i", "o", "n", " ", "c", "a", "p", "a", "b", "i", "l",
               "i",
       "t", "i", "e", "s", "." >>
table_example1_title ==
    << "B", "a", "s", "i", "c", " ", "t", "a", "b", "l", "e" >>
table_example2_title ==
    << "S", "e", "l", "e", "c", "t", "a", "b", "l", "e", " ", "t", "a", "b", "l", "e" >>
table_bestPractice1 ==
    << "U", "s", "e", " ", "m", "e", "a", "n", "i", "n", "g", "f", "u", "l", " ", "c", "o", "l",
            "u",
       "m", "n", " ", "h", "e", "a", "d", "e", "r", "s", " ", "t", "h", "a", "t", " ", "c", "l",
               "e",
       "a", "r", "l", "y", " ", "d", "e", "s", "c", "r", "i", "b", "e", " ", "t", "h", "e", " ",
               "d",
       "a", "t", "a" >>
table_bestPractice2 ==
    << "E", "n", "a", "b", "l", "e", " ", "p", "a", "g", "i", "n", "a", "t", "i", "o", "n", " ",
            "f",
       "o", "r", " ", "l", "a", "r", "g", "e", " ", "d", "a", "t", "a", " ", "s", "e", "t", "s" >>
table_bestPractice3 ==
    << "I", "n", "c", "l", "u", "d", "e", " ", "a", " ", "s", "e", "a", "r", "c", "h", " ", "b",
            "o",
       "x", " ", "w", "h", "e", "n", " ", "t", "a", "b", "l", "e", "s", " ", "c", "o", "n", "t",
               "a",
       "i", "n", " ", "m", "a", "n", "y", " ", "r", "o", "w", "s" >>
table_bestPractice4 ==
    << "U", "s", "e", " ", "e", "m", "p", "t", "y", " ", "s", "t", "a", "t", "e", " ", "m", "e",
            "s",
       "s", "a", "g", "i", "n", "g", " ", "w", "h", "e", "n", " ", "t", "h", "e", "r", "e", "'",
               "s",
       " ", "n", "o", " ", "d", "a", "t", "a", " ", "t", "o", " ", "d", "i", "s", "p", "l", "a",
               "y" >>
table_documentation ==
    << "h", "t", "t", "p", "s", ":", "/", "/", "c", "l", "o", "u", "d", "s", "c", "a", "p", "e",
            ".",
       "d", "e", "s", "i", "g", "n", "/", "c", "o", "m", "p", "o", "n", "e", "n", "t", "s", "/",
               "t",
       "a", "b", "l", "e", "/" >>
table_designGuidelines ==
    << "h", "t", "t", "p", "s", ":", "/", "/", "c", "l", "o", "u", "d", "s", "c", "a", "p", "e",
            ".",
       "d", "e", "s", "i", "g", "n", "/", "d", "e", "s", "i", "g", "n", "/", "p", "a", "t", "t",
               "e",
       "r", "n", "s", "/", "t", "a", "b", "l", "e", "s", "/" >>
form_name ==
    << "F", "o", "r", "m" >>
form_description ==
    << "F", "o", "r", "m", "s", " ", "c", "o", "l", "l", "e", "c", "t", " ", "i", "n", "p", "u",
            "t",
       " ", "f", "r", "o", "m", " ", "u", "s", "e", "r", "s", "." >>
form_usage ==
    << "U", "s", "e", " ", "f", "o", "r", "m", "s", " ", "t", "o", " ", "g", "a", "t", "h", "e",
            "r",
       " ", "i", "n", "f", "o", "r", "m", "a", "t", "i", "o", "n", " ", "f", "r", "o", "m", " ",
               "u",
       "s", "e", "r", "s", " ", "i", "n", " ", "a", " ", "s", "t", "r", "u", "c", "t", "u", "r",
               "e",
       "d", " ", "w", "a", "y", ".", " ", "C", "l", "o", "u", "d", "s", "c", "a", "p", "e", " ",
               "p",
       "r", "o", "v", "i", "d", "e", "s", " ", "a", " ", "f", "o", "r", "m", " ", "c", "o", "m",
               "p",
       "o", "n", "e", "n", "t", " ", "t", "h", "a", "t", " ", "h", "a", "n", "d", "l", "e", "s",
               " ",
       "l", "a", "y", "o", "u", "t", ",", " ", "v", "a", "l", "i", "d", "a", "t", "i", "o", "n",
               ",",
       " ", "a", "n", "d", " ", "e", "r", "r", "o", "r", " ", "h", "a", "n", "d", "l", "i", "n",
               "g",
       "." >>
form_example1_title ==
    << "B", "a", "s", "i", "c", " ", "f", "o", "r", "m" >>
form_bestPractice1 ==
    << "G", "r", "o", "u", "p", " ", "r", "e", "l", "a", "t", "e", "d", " ", "f", "o", "r", "m",
            " ",
       "f", "i", "e", "l", "d", "s", " ", "t", "o", "g", "e", "t", "h", "e", "r" >>
form_bestPractice2 ==
    << "U", "s", "e", " ", "c", "l", "e", "a", "r", ",", " ", "c", "o", "n", "c", "i", "s", "e",
            " ",
       "l", "a", "b", "e", "l", "s", " ", "f", "o", "r", " ", "f", "o", "r", "m", " ", "f", "i",
               "e",
       "l", "d", "s" >>
form_bestPractice3 ==
    << "P", "r", "o", "v", "i", "d", "e", " ", "h", "e", "l", "p", "e", "r", " ", "t", "e", "x",
            "t",
       " ", "t", "o", " ", "e", "x", "p", "l", "a", "i", "n", " ", "c", "o", "m", "p", "l", "e",
               "x",
       " ", "f", "i", "e", "l", "d", "s" >>
form_bestPractice4 ==
    << "S", "h", "o", "w", " ", "v", "a", "l", "i", "d", "a", "t", "i", "o", "n", " ", "e", "r",
            "r",
       "o", "r", "s", " ", "i", "n", "l", "i", "n", "e", " ", "n", "e", "x", "t", " ", "t", "o",
               " ",
       "t", "h", "e", " ", "r", "e", "l", "e", "v", "a", "n", "t", " ", "f", "i", "e", "l", "d" >>
form_documentation ==
    << "h", "t", "t", "p", "s", ":", "/", "/", "c", "l", "o", "u", "d", "s", "c", "a", "p", "e",
            ".",
       "d", "e", "s", "i", "g", "n", "/", "c", "o", "m", "p", "o", "n", "e", "n", "t", "s", "/",
               "f",
       "o", "r", "m", "/" >>
form_designGuidelines ==
    << "h", "t", "t", "p", "s", ":", "/", "/", "c", "l", "o", "u", "d", "s", "c", "a", "p", "e",
            ".",
       "d", "e", "s", "i", "g", "n", "/", "d", "e", "s", "i", "g", "n", "/", "p", "a", "t", "t",
               "e",
       "r", "n", "s", "/", "f", "o", "r", "m", "s", "/" >>
header_name ==
    << "H", "e", "a", "d", "e", "r" >>
header_description ==
    << "H", "e", "a", "d", "e", "r", "s", " ", "a", "p", "p", "e", "a", "r", " ", "a", "t", " ",
            "t",
       "h", "e", " ", "t", "o", "p", " ", "o", "f", " ", "p", "a", "g", "e", "s", " ", "a", "n",
               "d",
       " ", "c", "o", "n", "t", "a", "i", "n", "e", "r", "s", " ", "t", "o", " ", "p", "r", "o",
               "v",
       "i", "d", "e", " ", "c", "o", "n", "t", "e", "x", "t", " ", "a", "n", "d", " ", "a", "c",
               "t",
       "i", "o", "n", "s", "." >>
header_usage ==
    << "U", "s", "e", " ", "h", "e", "a", "d", "e", "r", "s", " ", "t", "o", " ", "p", "r", "o",
            "v",
       "i", "d", "e", " ", "i", "n", "f", "o", "r", "m", "a", "t", "i", "o", "n", " ", "a", "b",
               "o",
       "u", "t", " ", "t", "h", "e", " ", "c", "o", "n", "t", "e", "n", "t", " ", "a", "n", "d",
               " ",
       "t", "o", " ", "o", "f", "f", "e", "r", " ", "a", "c", "t", "i", "o", "n", "s", " ", "r",
               "e",
       "l", "a", "t", "e", "d", " ", "t", "o", " ", "t", "h", "a", "t", " ", "c", "o", "n", "t",
               "e",
       "n", "t", "." >>
header_example1_title ==
    << "P", "a", "g", "e", " ", "h", "e", "a", "d", "e", "r" >>
header_bestPractice1 ==
    << "U", "s", "e", " ", "c", "o", "n", "c", "i", "s", "e", ",", " ", "d", "e", "s", "c", "r",
            "i",
       "p", "t", "i", "v", "e", " ", "h", "e", "a", "d", "i", "n", "g", "s" >>
header_bestPractice2 ==
    << "P", "l", "a", "c", "e", " ", "t", "h", "e", " ", "m", "o", "s", "t", " ", "i", "m", "p",
            "o",
       "r", "t", "a", "n", "t", " ", "a", "c", "t", "i", "o", "n", "s", " ", "i", "n", " ", "t",
               "h",
       "e", " ", "h", "e", "a", "d", "e", "r" >>
header_bestPractice3 ==
    << "U", "s", "e", " ", "c", "o", "n", "s", "i", "s", "t", "e", "n", "t", " ", "h", "e", "a",
            "d",
       "i", "n", "g", " ", "l", "e", "v", "e", "l", "s", " ", "t", "h", "r", "o", "u", "g", "h",
               "o",
       "u", "t", " ", "y", "o", "u", "r", " ", "a", "p", "p", "l", "i", "c", "a", "t", "i", "o",
               "n" >>
header_bestPractice4 ==
    << "C", "o", "n", "s", "i", "d", "e", "r", " ", "u", "s", "i", "n", "g", " ", "b", "r", "e",
            "a",
       "d", "c", "r", "u", "m", "b", "s", " ", "w", "i", "t", "h", " ", "h", "e", "a", "d", "e",
               "r",
       "s", " ", "f", "o", "r", " ", "n", "a", "v", "i", "g", "a", "t", "i", "o", "n", " ", "c",
               "o",
       "n", "t", "e", "x", "t" >>
header_documentation ==
    << "h", "t", "t", "p", "s", ":", "/", "/", "c", "l", "o", "u", "d", "s", "c", "a", "p", "e",
            ".",
       "d", "e", "s", "i", "g", "n", "/", "c", "o", "m", "p", "o", "n", "e", "n", "t", "s", "/",
               "h",
       "e", "a", "d", "e", "r", "/" >>
box_name ==
    << "B", "o", "x" >>
box_description ==
    << "B", "o", "x", "e", "s", " ", "a", "r", "e", " ", "c", "o", "n", "t", "a", "i", "n", "e",
            "r",
       " ", "c", "o", "m", "p", "o", "n", "e", "n", "t", "s", " ", "t", "h", "a", "t", " ", "v",
               "i",
       "s", "u", "a", "l", "l", "y", " ", "g", "r", "o", "u", "p", " ", "c", "o", "n", "t", "e",
               "n",
       "t", "." >>
box_usage ==
    << "U", "s", "e", " ", "b", "o", "x", "e", "s", " ", "t", "o", " ", "c", "r", "e", "a", "t",
            "e",
       " ", "v", "i", "s", "u", "a", "l", " ", "s", "e", "p", "a", "r", "a", "t", "i", "o", "n",
               " ",
       "b", "e", "t", "w", "e", "e", "n", " ", "d", "i", "f", "f", "e", "r", "e", "n", "t", " ",
               "s",
       "e", "c", "t", "i", "o", "n", "s", " ", "o", "f", " ", "c", "o", "n", "t", "e", "n", "t",
               " ",
       "o", "n", " ", "a", " ", "p", "a", "g", "e", "." >>
box_example1_title ==
    << "B", "a", "s", "i", "c", " ", "b", "o", "x" >>
box_bestPractice1 ==
    << "U", "s", "e", " ", "b", "o", "x", "e", "s", " ", "t", "o", " ", "g", "r", "o", "u", "p",
            " ",
       "r", "e", "l", "a", "t", "e", "d", " ", "c", "o", "n", "t", "e", "n", "t" >>
box_bestPractice2 ==
    << "D", "o", "n", "'", "t", " ", "n", "e", "s", "t", " ", "b", "o", "x", "e", "s", " ", "t",
            "o",
       "o", " ", "d", "e", "e", "p", "l", "y" >>
box_bestPractice3 ==
    << "C", "o", "n", "s", "i", "d", "e", "r", " ", "u", "s", "i", "n", "g", " ", "d", "i", "f",
            "f",
       "e", "r", "e", "n", "t", " ", "v", "a", "r", "i", "a", "n", "t", "s", " ", "f", "o", "r",
               " ",
       "d", "i", "f", "f", "e", "r", "e", "n", "t", " ", "t", "y", "p", "e", "s", " ", "o", "f",
               " ",
       "c", "o", "n", "t", "e", "n", "t" >>
box_bestPractice4 ==
    << "U", "s", "e", " ", "c", "o", "n", "s", "i", "s", "t", "e", "n", "t", " ", "p", "a", "d",
            "d",
       "i", "n", "g", " ", "w", "i", "t", "h", "i", "n", " ", "b", "o", "x", "e", "s" >>
box_documentation ==
    << "h", "t", "t", "p", "s", ":", "/", "/", "c", "l", "o", "u", "d", "s", "c", "a", "p", "e",
            ".",
       "d", "e", "s", "i", "g", "n", "/", "c", "o", "m", "p", "o", "n", "e", "n", "t", "s", "/",
               "b",
       "o", "x", "/" >>
alert_name ==
    << "A", "l", "e", "r", "t" >>
alert_description ==
    << "A", "l", "e", "r", "t", "s", " ", "d", "i", "s", "p", "l", "a", "y", " ", "i", "m", "p",
            "o",
       "r", "t", "a", "n", "t", " ", "m", "e", "s", "s", "a", "g", "e", "s", " ", "t", "o", " ",
               "u",
       "s", "e", "r", "s", "." >>
alert_usage ==
    << "U", "s", "e", " ", "a", "l", "e", "r", "t", "s", " ", "t", "o", " ", "c", "o", "m", "m",
            "u",
       "n", "i", "c", "a", "t", "e", " ", "i", "m", "p", "o", "r", "t", "a", "n", "t", " ", "i",
               "n",
       "f", "o", "r", "m", "a", "t", "i", "o", "n", ",", " ", "w", "a", "r", "n", "i", "n", "g",
               "s",
       ",", " ", "o", "r", " ", "e", "r", "r", "o", "r", "s", " ", "t", "o", " ", "u", "s", "e",
               "r",
       "s", "." >>
alert_example1_title ==
    << "S", "u", "c", "c", "e", "s", "s", " ", "a", "l", "e", "r", "t" >>
alert_example2_title ==
    << "W", "a", "r", "n", "i", "n", "g", " ", "a", "l", "e", "r", "t" >>
alert_bestPractice1 ==
    << "U", "s", "e", " ", "t", "h", "e", " ", "a", "p", "p", "r", "o", "p", "r", "i", "a", "t",
            "e",
       " ", "a", "l", "e", "r", "t", " ", "t", "y", "p", "e", " ", "(", "s", "u", "c", "c", "e",
               "s",
       "s", ",", " ", "w", "a", "r", "n", "i", "n", "g", ",", " ", "i", "n", "f", "o", ",", " ",
               "e",
       "r", "r", "o", "r", ")" >>
alert_bestPractice2 ==
    << "P", "r", "o", "v", "i", "d", "e", " ", "c", "l", "e", "a", "r", ",", " ", "a", "c", "t",
            "i",
       "o", "n", "a", "b", "l", "e", " ", "i", "n", "f", "o", "r", "m", "a", "t", "i", "o", "n",
               " ",
       "i", "n", " ", "a", "l", "e", "r", "t", "s" >>
alert_bestPractice3 ==
    << "U", "s", "e", " ", "a", "l", "e", "r", "t", "s", " ", "s", "p", "a", "r", "i", "n", "g",
            "l",
       "y", " ", "t", "o", " ", "a", "v", "o", "i", "d", " ", "a", "l", "e", "r", "t", " ", "f",
               "a",
       "t", "i", "g", "u", "e" >>
alert_bestPractice4 ==
    << "P", "o", "s", "i", "t", "i", "o", "n", " ", "a", "l", "e", "r", "t", "s", " ", "w", "h",
            "e",
       "r", "e", " ", "t", "h", "e", "y", " ", "w", "i", "l", "l", " ", "b", "e", " ", "n", "o",
               "t",
       "i", "c", "e", "d", " ", "b", "u", "t", " ", "n", "o", "t", " ", "d", "i", "s", "r", "u",
               "p",
       "t", "i", "v", "e" >>
alert_documentation ==
    << "h", "t", "t", "p", "s", ":", "/", "/", "c", "l", "o", "u", "d", "s", "c", "a", "p", "e",
            ".",
       "d", "e", "s", "i", "g", "n", "/", "c", "o", "m", "p", "o", "n", "e", "n", "t", "s", "/",
               "a",
       "l", "e", "r", "t", "/" >>
alert_designGuidelines ==
    << "h", "t", "t", "p", "s", ":", "/", "/", "c", "l", "o", "u", "d", "s", "c", "a", "p", "e",
            ".",
       "d", "e", "s", "i", "g", "n", "/", "d", "e", "s", "i", "g", "n", "/", "p", "a", "t", "t",
               "e",
       "r", "n", "s", "/", "s", "t", "a", "t", "u", "s", "-", "i", "n", "d", "i", "c", "a", "t",
               "o",
       "r", "s", "/" >>
empty_state_name ==
    << "E", "m", "p", "t", "y", " ", "s", "t", "a", "t", "e" >>
empty_state_description ==
    << "D", "e", "s", "i", "g", "n", " ", "p", "a", "t", "t", "e", "r", "n", " ", "f", "o", "r",
            " ",
       "s", "h", "o", "w", "i", "n", "g", " ", "e", "m", "p", "t", "y", " ", "s", "t", "a", "t",
               "e",
       "s", " ", "i", "n", " ", "t", "a", "b", "l", "e", "s", ",", " ", "l", "i", "s", "t", "s",
               ",",
       " ", "a", "n", "d", " ", "d", "a", "s", "h", "b", "o", "a", "r", "d", "s" >>
empty_state_usage ==
    << "U", "s", "e", " ", "e", "m", "p", "t", "y", " ", "s", "t", "a", "t", "e", "s", " ", "t",
            "o",
       " ", "c", "o", "m", "m", "u", "n", "i", "c", "a", "t", "e", " ", "w", "h", "e", "n", " ",
               "t",
       "h", "e", "r", "e", "'", "s", " ", "n", "o", " ", "d", "a", "t", "a", " ", "t", "o", " ",
               "d",
       "i", "s", "p", "l", "a", "y", " ", "a", "n", "d", " ", "g", "u", "i", "d", "e", " ", "u",
               "s",
       "e", "r", "s", " ", "o", "n", " ", "w", "h", "a", "t", " ", "t", "o", " ", "d", "o", " ",
               "n",
       "e", "x", "t", "." >>
form_validation_name ==
    << "F", "o", "r", "m", " ", "v", "a", "l", "i", "d", "a", "t", "i", "o", "n" >>
form_validation_description ==
    << "P", "a", "t", "t", "e", "r", "n", "s", " ", "f", "o", "r", " ", "v", "a", "l", "i", "d",
            "a",
       "t", "i", "n", "g", " ", "u", "s", "e", "r", " ", "i", "n", "p", "u", "t", " ", "i", "n",
               " ",
       "f", "o", "r", "m", "s" >>
form_validation_usage ==
    << "U", "s", "e", " ", "f", "o", "r", "m", " ", "v", "a", "l", "i", "d", "a", "t", "i", "o",
            "n",
       " ", "t", "o", " ", "h", "e", "l", "p", " ", "u", "s", "e", "r", "s", " ", "c", "o", "m",
               "p",
       "l", "e", "t", "e", " ", "f", "o", "r", "m", "s", " ", "c", "o", "r", "r", "e", "c", "t",
               "l",
       "y", " ", "a", "n", "d", " ", "e", "f", "f", "i", "c", "i", "e", "n", "t", "l", "y", "." >>
loading_states_name ==
    << "L", "o", "a", "d", "i", "n", "g", " ", "s", "t", "a", "t", "e", "s" >>
loading_states_description ==
    << "P", "a", "t", "t", "e", "r", "n", "s", " ", "f", "o", "r", " ", "i", "n", "d", "i", "c",
            "a",
       "t", "i", "n", "g", " ", "t", "h", "a", "t", " ", "c", "o", "n", "t", "e", "n", "t", " ",
               "i",
       "s", " ", "l", "o", "a", "d", "i", "n", "g" >>
loading_states_usage ==
    << "U", "s", "e", " ", "l", "o", "a", "d", "i", "n", "g", " ", "s", "t", "a", "t", "e", "s",
            " ",
       "t", "o", " ", "p", "r", "o", "v", "i", "d", "e", " ", "f", "e", "e", "d", "b", "a", "c",
               "k",
       " ", "t", "o", " ", "u", "s", "e", "r", "s", " ", "w", "h", "e", "n", " ", "c", "o", "n",
               "t",
       "e", "n", "t", " ", "i", "s", " ", "b", "e", "i", "n", "g", " ", "l", "o", "a", "d", "e",
               "d",
       "." >>

component_button ==
    [id |-> <<"b", "u", "t", "t", "o", "n">>,
     name |-> button_name,
     description |-> button_description,
     usage |-> button_usage,
     examples |-> << [title |-> button_example1_title], [title |-> button_example2_title],
             [title |-> button_example3_title] >>,
     category |-> ComponentCategory_FORM,
     bestPractices |-> << button_bestPractice1, button_bestPractice2, button_bestPractice3,
             button_bestPractice4 >>,
     links |-> [documentation |-> button_documentation,
             designGuidelines |-> button_designGuidelines]]

component_table ==
    [id |-> <<"t", "a", "b", "l", "e">>,
     name |-> table_name,
     description |-> table_description,
     usage |-> table_usage,
     examples |-> << [title |-> table_example1_title], [title |-> table_example2_title] >>,
     category |-> ComponentCategory_TABLE,
     bestPractices |-> << table_bestPractice1, table_bestPractice2, table_bestPractice3,
             table_bestPractice4 >>,
     links |-> [documentation |-> table_documentation, designGuidelines |-> table_designGuidelines]]

component_form ==
    [id |-> <<"f", "o", "r", "m">>,
     name |-> form_name,
     description |-> form_description,
     usage |-> form_usage,
     examples |-> << [title |-> form_example1_title] >>,
     category |-> ComponentCategory_FORM,
     bestPractices |-> << form_bestPractice1, form_bestPractice2, form_bestPractice3,
             form_bestPractice4 >>,
     links |-> [documentation |-> form_documentation, designGuidelines |-> form_designGuidelines]]

component_header ==
    [id |-> <<"h", "e", "a", "d", "e", "r">>,
     name |-> header_name,
     description |-> header_description,
     usage |-> header_usage,
     examples |-> << [title |-> header_example1_title] >>,
     category |-> ComponentCategory_CONTAINER,
     bestPractices |-> << header_bestPractice1, header_bestPractice2, header_bestPractice3,
             header_bestPractice4 >>,
     links |-> [documentation |-> header_documentation]]

component_box ==
    [id |-> <<"b", "o", "x">>,
     name |-> box_name,
     description |-> box_description,
     usage |-> box_usage,
     examples |-> << [title |-> box_example1_title] >>,
     category |-> ComponentCategory_CONTAINER,
     bestPractices |-> << box_bestPractice1, box_bestPractice2, box_bestPractice3,
             box_bestPractice4 >>,
     links |-> [documentation |-> box_documentation]]

component_alert ==
    [id |-> <<"a", "l", "e", "r", "t">>,
     name |-> alert_name,
     description |-> alert_description,
     usage |-> alert_usage,
     examples |-> << [title |-> alert_example1_title], [title |-> alert_example2_title] >>,
     category |-> ComponentCategory_NOTIFICATION,
     bestPractices |-> << alert_bestPractice1, alert_bestPractice2, alert_bestPractice3,
             alert_bestPractice4 >>,
     links |-> [documentation |-> alert_documentation, designGuidelines |-> alert_designGuidelines]]

\* cloudscapeComponents as defined: own entries <<key, component>> in definition order.
cloudscapeComponentsData ==
    << << <<"b", "u", "t", "t", "o", "n">>, component_button >>,
       << <<"t", "a", "b", "l", "e">>, component_table >>,
       << <<"f", "o", "r", "m">>, component_form >>,
       << <<"h", "e", "a", "d", "e", "r">>, component_header >>,
       << <<"b", "o", "x">>, component_box >>,
       << <<"a", "l", "e", "r", "t">>, component_alert >> >>

pattern_empty_state ==
    [name |-> empty_state_name, description |-> empty_state_description,
            usage |-> empty_state_usage]

pattern_form_validation ==
    [name |-> form_validation_name, description |-> form_validation_description,
            usage |-> form_validation_usage]

pattern_loading_states ==
    [name |-> loading_states_name, description |-> loading_states_description,
            usage |-> loading_states_usage]

\* cloudscapePatterns as defined.
cloudscapePatternsData ==
    << << <<"e", "m", "p", "t", "y", "-", "s", "t", "a", "t", "e">>, pattern_empty_state >>,
       << <<"f", "o", "r", "m", "-", "v", "a", "l", "i", "d", "a", "t", "i", "o", "n">>,
               pattern_form_validation >>,
       << <<"l", "o", "a", "d", "i", "n", "g", "-", "s", "t", "a", "t", "e", "s">>,
               pattern_loading_states >> >>

\* componentsByCategory with "form" left out of the Form list.
componentsByCategoryData_formUnlisted ==
    << << ComponentCategory_CONTAINER, << S_box, S_header >> >>,
       << ComponentCategory_NAVIGATION, << >> >>,
       << ComponentCategory_FORM, << S_button >> >>,
       << ComponentCategory_TABLE, << S_table >> >>,
       << ComponentCategory_CHART, << >> >>,
       << ComponentCategory_TEXT, << >> >>,
       << ComponentCategory_NOTIFICATION, << S_alert >> >>,
       << ComponentCategory_OVERLAY, << >> >>,
       << ComponentCategory_OTHER, << >> >> >>

\* componentsByCategory with "button" listed under Container as well.
componentsByCategoryData_buttonInContainer ==
    << << ComponentCategory_CONTAINER, << S_box, S_header, S_button >> >>,
       << ComponentCategory_NAVIGATION, << >> >>,
       << ComponentCategory_FORM, << S_button, S_form >> >>,
       << ComponentCategory_TABLE, << S_table >> >>,
       << ComponentCategory_CHART, << >> >>,
       << ComponentCategory_TEXT, << >> >>,
       << ComponentCategory_NOTIFICATION, << S_alert >> >>,
       << ComponentCategory_OVERLAY, << >> >>,
       << ComponentCategory_OTHER, << >> >> >>

\* componentsByCategory as defined: one entry per category, in the order of
\* the object literal.
componentsByCategoryData ==
    << << ComponentCategory_CONTAINER, << S_box, S_header >> >>,
       << ComponentCategory_NAVIGATION, << >> >>,
       << ComponentCategory_FORM, << S_button, S_form >> >>,
       << ComponentCategory_TABLE, << S_table >> >>,
       << ComponentCategory_CHART, << >> >>,
       << ComponentCategory_TEXT, << >> >>,
       << ComponentCategory_NOTIFICATION, << S_alert >> >>,
       << ComponentCategory_OVERLAY, << >> >>,
       << ComponentCategory_OTHER, << >> >> >>

---------------------------------------------------------------------------
(* State: the three exported catalog objects, the request being served,    *)
(* the outcome its handler gave, and the requests served so far with their *)
(* outcomes.  The handlers share nothing but the catalog objects.          *)

VARIABLES cloudscapeComponents, componentsByCategory, cloudscapePatterns,
          request, response, served

catalog == << cloudscapeComponents, componentsByCategory, cloudscapePatterns >>
vars ==
    << cloudscapeComponents, componentsByCategory, cloudscapePatterns, request, response, served >>

\* No outcome yet: the request is still to be handled.
Pending == [kind |-> "pending"]

\* throw new Error(message): the request fails with that error.
Throw(name, message) == [kind |-> "error", name |-> name, message |-> message]

Min(S) == CHOOSE m \in S : \A n \in S : m <= n

---------------------------------------------------------------------------
(* read_resource: uri.match(/cloudscape:\/\/([^\/]+)\/(.+)/) and the       *)
(* dispatch on the resource type.                                          *)

Scheme == S_cloudscapeColonSlashSlash

\* Characters the regular expression's "." does not match.
LineTerminators == { "\n", "\r" }

NoMatch == << >>

\* The match attempted at position i: the literal cloudscape://, then
\* ([^\/]+) the longest run of characters other than "/", which has to be
\* non-empty and followed by "/", then (.+) the longest non-empty run of
\* characters other than line terminators.  Yields <<type, id>> or NoMatch.
MatchAt(uri, i) ==
    LET j == i + Len(Scheme)
        slashes == { k \in j..Len(uri) : uri[k] = "/" }
    IN  IF j - 1 > Len(uri) \/ SubSeq(uri, i, j - 1) # Scheme \/ slashes = {}
        THEN NoMatch
        ELSE LET s == Min(slashes)
                 stops == { k \in (s + 1)..Len(uri) : uri[k] \in LineTerminators }
                 e == IF stops = {} THEN Len(uri) ELSE Min(stops) - 1
             IN  IF s = j \/ e < s + 1
                 THEN NoMatch
                 ELSE << SubSeq(uri, j, s - 1), SubSeq(uri, s + 1, e) >>

\* uri.match(re): the regular expression is not anchored, so the match found
\* is the one at the leftmost position where an attempt succeeds.
match(uri) ==
    LET starts == { i \in 1..Len(uri) : MatchAt(uri, i) # NoMatch }
    IN  IF starts = {} THEN NoMatch ELSE MatchAt(uri, Min(starts))

\* formatComponentAsMarkdown with the best practices in reverse order.
formatComponentAsMarkdown_practicesReversed(component) ==
    IF ~ HasField(component, "examples")
    THEN Throw("TypeError", S_Cannot_read_properties_of_undefined)
    ELSE [kind |-> "markdown",
          heading |-> S_Hash_ \o component.name,
          description |-> component.description,
          usage |-> component.usage,
          examples |-> [i \in 1..Len(component.examples) |->
                            S_HashHashHash_ \o component.examples[i].title],
          bestPractices |-> [i \in 1..Len(component.bestPractices) |->
                            S_Dash_ \o component.bestPractices[
                                Len(component.bestPractices) + 1 - i]],
          links |-> << S_Dash_LBracketComponent_DocumentationRBra \o component.links.documentation \o S_RParen >>
                    \o (IF HasField(component.links, "designGuidelines")
                        THEN << S_Dash_LBracketDesign_GuidelinesRBracketLP \o component.links.designGuidelines \o S_RParen >>
                        ELSE << >>)]

\* formatComponentAsMarkdown: component.examples.map(...) comes first and
\* throws a TypeError when the value has no examples.
formatComponentAsMarkdown(component) ==
    IF ~ HasField(component, "examples")
    THEN Throw("TypeError", S_Cannot_read_properties_of_undefined)
    ELSE [kind |-> "markdown",
          heading |-> S_Hash_ \o component.name,
          description |-> component.description,
          usage |-> component.usage,
          examples |-> [i \in 1..Len(component.examples) |->
                            S_HashHashHash_ \o component.examples[i].title],
          bestPractices |-> [i \in 1..Len(component.bestPractices) |->
                            S_Dash_ \o component.bestPractices[i]],
          links |-> << S_Dash_LBracketComponent_DocumentationRBra \o component.links.documentation \o S_RParen >>
                    \o (IF HasField(component.links, "designGuidelines")
                        THEN << S_Dash_LBracketDesign_GuidelinesRBracketLP \o component.links.designGuidelines \o S_RParen >>
                        ELSE << >>)]

\* cloudscapeComponents[id] is a value whose name, links.documentation and
\* description can be read: reading a property of undefined throws.
Renderable(id) ==
    /\ HasProperty(cloudscapeComponents, id)
    /\ HasField(Get(cloudscapeComponents, id), "links")

\* formatCategoryAsMarkdown
formatCategoryAsMarkdown(category) ==
    LET categoryComponents ==
            IF HasProperty(componentsByCategory, category)
            THEN Get(componentsByCategory, category) ELSE << >>
        componentsList ==
            [i \in 1..Len(categoryComponents) |->
                LET component == Get(cloudscapeComponents, categoryComponents[i])
                IN  S_Dash_LBracket \o Interpolate(component, "name") \o S_RBracketLParen
                    \o component.links.documentation \o S_RParenColon_
                    \o Interpolate(component, "description")]
    IN  IF \E i \in 1..Len(categoryComponents) : ~ Renderable(categoryComponents[i])
        THEN Throw("TypeError", S_Cannot_read_properties_of_undefined)
        ELSE [kind |-> "markdown",
              heading |-> S_Hash_ \o category \o S__Components,
              body |-> IF Len(componentsList) > 0 THEN componentsList
                       ELSE << S_No_components_in_this_category_yetDot >>]

\* formatPatternAsMarkdown
formatPatternAsMarkdown(id, pattern) ==
    [kind |-> "markdown",
     heading |-> S_Hash_ \o Interpolate(pattern, "name"),
     description |-> Interpolate(pattern, "description"),
     usage |-> Interpolate(pattern, "usage")]

\* What the handler does with a thrown error: logs it and rethrows it.
\* What it returns otherwise: the one content of the resource.
Contents(uri, content) ==
    IF content.kind = "error" THEN content
    ELSE [kind |-> "contents", uri |-> uri, mimeType |-> "text/markdown", text |-> content]

readResource(uri) ==
    LET matches == match(uri)
    IN  IF matches = NoMatch
        THEN Throw("Error", S_Invalid_resource_URI_formatColon_ \o uri)
        ELSE LET resourceType == matches[1]
                 resourceId == matches[2]
             IN  IF resourceType = S_component
                 THEN IF ~ HasProperty(cloudscapeComponents, resourceId)
                      THEN Throw("Error", S_Component_ \o resourceId \o S__not_found)
                      ELSE Contents(uri, formatComponentAsMarkdown(
                                             Get(cloudscapeComponents, resourceId)))
                 ELSE IF resourceType = S_pattern
                 THEN IF ~ HasProperty(cloudscapePatterns, resourceId)
                      THEN Throw("Error", S_Pattern_ \o resourceId \o S__not_found)
                      ELSE Contents(uri, formatPatternAsMarkdown(
                                             resourceId, Get(cloudscapePatterns, resourceId)))
                 ELSE IF resourceType = S_category
                 THEN IF ~ \E i \in 1..Len(ComponentCategory) : ComponentCategory[i] = resourceId
                      THEN Throw("Error", S_Category_ \o resourceId \o S__not_found)
                      ELSE Contents(uri, formatCategoryAsMarkdown(resourceId))
                 ELSE Throw("Error", S_Unknown_resource_typeColon_ \o resourceType)

\* Addresses a client sends: prefix, scheme, type, separator and id, each drawn
\* from a few values, and some whole strings.
UriPrefixes == { << >>, S_x }
UriSchemes == { S_cloudscapeColonSlashSlash, S_cloudscapeColonSlash, S_httpsColonSlashSlash }
UriTypes == { S_component, S_pattern, S_category, S_Component, S_tool, << >> }
UriSeparators == { S_Slash, << >> }
UriIds ==
    { S_button, S_table, S_does_not_exist, S_constructor, S___proto__,
      S_empty_state, S_Form, S_form, S_Chart, << >> }
SampleUris ==
    { S_not_a_valid_uri, << >>, S_cloudscapeColonSlashSlashcomponentSlashb,
      S_cloudscapeColonSlashSlashcomponentSlashb_2, S_cloudscapeColonSlashSlashcomponentSlashN,
      S_cloudscapeColonSlashSlashxSlashcloudscap,
      S_cloudscapeColonSlashSlashcomponentSlashh,
      S_cloudscapeColonSlashSlashcomponentSlashb_3, S_cloudscapeColonSlashSlashcomponentSlasha }

Uris ==
    { p \o s \o t \o sep \o id :
        p \in UriPrefixes, s \in UriSchemes, t \in UriTypes, sep \in UriSeparators, id \in UriIds }
    \cup SampleUris

\* The handler, keeping every document it returned as a pattern of its address.
ReadResource_cachingDocuments ==
    /\ request.method = "resources/read"
    /\ response = Pending
    /\ response' = readResource(request.params.uri)
    /\ served' = Append(served, << request, response' >>)
    /\ cloudscapePatterns' =
           IF response'.kind = "error" THEN cloudscapePatterns
           ELSE Append(cloudscapePatterns,
                       << request.params.uri,
                          [name |-> request.params.uri, description |-> << >>, usage |-> << >>] >>)
    /\ UNCHANGED << cloudscapeComponents, componentsByCategory, request >>

\* The handler, refusing every address once a request has failed.
ReadResource_failingAfterFailure ==
    /\ request.method = "resources/read"
    /\ response = Pending
    /\ response' = IF \E k \in 1..Len(served) : served[k][2].kind = "error"
                   THEN Throw("Error", S_Invalid_resource_URI_formatColon_ \o request.params.uri)
                   ELSE readResource(request.params.uri)
    /\ served' = Append(served, << request, response' >>)
    /\ UNCHANGED << catalog, request >>

ReadResource ==
    /\ request.method = "resources/read"
    /\ response = Pending
    /\ response' = readResource(request.params.uri)
    /\ served' = Append(served, << request, response' >>)
    /\ UNCHANGED << catalog, request >>


---------------------------------------------------------------------------
(* The ListResources handler.                                              *)

\* Object.values(cloudscapeComponents).map(component => ({ uri, ... }))
componentResources ==
    LET components == OwnValues(cloudscapeComponents)
    IN  [i \in 1..Len(components) |->
            [uri |-> S_cloudscapeColonSlashSlashcomponentSlash \o components[i].id,
             mimeType |-> "text/markdown",
             name |-> components[i].name,
             description |-> components[i].description \o S__LParen
                             \o components[i].category \o S_RParen]]

\* Object.entries(cloudscapePatterns).map(([id, pattern]) => ({ uri, ... }))
patternResources ==
    [i \in 1..Len(cloudscapePatterns) |->
        [uri |-> S_cloudscapeColonSlashSlashpatternSlash \o cloudscapePatterns[i][1],
         mimeType |-> "text/markdown",
         name |-> cloudscapePatterns[i][2].name,
         description |-> cloudscapePatterns[i][2].description]]

\* The category resources, addressed by the lower-case category.
categoryResources_lowerCase ==
    [i \in 1..Len(ComponentCategory) |->
        [uri |-> S_cloudscapeColonSlashSlashcategorySlash \o toLowerCase(ComponentCategory[i]),
         mimeType |-> "text/markdown",
         name |-> ComponentCategory[i] \o S__Components,
         description |-> S_Overview_of_all_ \o ComponentCategory[i]
                         \o S__components_in_Cloudscape]]

\* Object.values(ComponentCategory).map(category => ({ uri, ... }))
categoryResources ==
    [i \in 1..Len(ComponentCategory) |->
        [uri |-> S_cloudscapeColonSlashSlashcategorySlash \o ComponentCategory[i],
         mimeType |-> "text/markdown",
         name |-> ComponentCategory[i] \o S__Components,
         description |-> S_Overview_of_all_ \o ComponentCategory[i]
                         \o S__components_in_Cloudscape]]

\* The listing without the pattern resources.
listResources_withoutPatterns ==
    [kind |-> "resources", resources |-> componentResources \o categoryResources]

listResources ==
    [kind |-> "resources",
     resources |-> componentResources \o patternResources \o categoryResources]

ListResources ==
    /\ request.method = "resources/list"
    /\ response = Pending
    /\ response' = listResources
    /\ served' = Append(served, << request, response' >>)
    /\ UNCHANGED << catalog, request >>

---------------------------------------------------------------------------
(* tools/call search_components                                            *)

\* String(request.params.arguments?.query).toLowerCase(): an absent query
\* reads "undefined".
searchQuery_asTyped(arguments) == Interpolate(arguments, "query")
searchQuery(arguments) == toLowerCase(Interpolate(arguments, "query"))

\* request.params.arguments?.category is truthy: present and not empty.
hasCategory(arguments) == HasField(arguments, "category") /\ arguments.category # << >>

matchesQuery_withoutUsage(component, query) ==
    \/ includes(toLowerCase(component.name), query)
    \/ includes(toLowerCase(component.description), query)
matchesQuery_anyWord(component, query) ==
    \E i \in 1..Len(query) : \E j \in i..Len(query) :
        /\ \A k \in i..j : query[k] # " "
        /\ i = 1 \/ query[i - 1] = " "
        /\ j = Len(query) \/ query[j + 1] = " "
        /\ \/ includes(toLowerCase(component.name), SubSeq(query, i, j))
           \/ includes(toLowerCase(component.description), SubSeq(query, i, j))
           \/ includes(toLowerCase(component.usage), SubSeq(query, i, j))
matchesQuery(component, query) ==
    \/ includes(toLowerCase(component.name), query)
    \/ includes(toLowerCase(component.description), query)
    \/ includes(toLowerCase(component.usage), query)

matchesCategory_ignored(component, arguments) == TRUE
matchesCategory(component, arguments) ==
    ~ hasCategory(arguments) \/ component.category = arguments.category

search_components(arguments) ==
    LET query == searchQuery(arguments)
        keep(component) == matchesQuery(component, query) /\ matchesCategory(component, arguments)
        filteredComponents == SelectSeq(OwnValues(cloudscapeComponents), keep)
    IN  IF Len(filteredComponents) = 0
        THEN [kind |-> "content",
              filteredComponents |-> filteredComponents,
              text |-> [kind |-> "none found",
                        message |-> S_No_components_found_matching_Quote \o query \o S_Quote
                                    \o (IF hasCategory(arguments)
                                        THEN S__in_category_ \o arguments.category ELSE << >>)
                                    \o S_Dot]]
        ELSE [kind |-> "content",
              filteredComponents |-> filteredComponents,
              text |-> [kind |-> "results",
                        heading |-> S_Hash_Search_Results_for_Quote \o query \o S_Quote,
                        found |-> Len(filteredComponents),
                        results |->
                            [i \in 1..Len(filteredComponents) |->
                                LET component == filteredComponents[i]
                                IN  [heading |-> S_HashHash_LBracket \o component.name \o S_RBracketLParen
                                                 \o component.links.documentation \o S_RParen,
                                     category |-> S_StarStarCategoryColonStarStar_ \o component.category,
                                     description |-> component.description,
                                     usage |-> S_StarStarUsageColonStarStar_ \o substring(component.usage,
                                             150)
                                               \o (IF Len(component.usage) > 150
                                                   THEN S_DotDotDot ELSE << >>)]]]]

\* Queries a client sends: every string of at most MaxQueryLen characters of a
\* small alphabet (lower case, upper case, a space and U+00DF, whose upper case
\* is "SS"), and some whole strings.
QueryAlphabet == { "a", "t", "s", "S", "T", "ß", " " }
SampleQueries ==
    { S_input_text, S_input, S_text, S_button, S_BUTTON, S_Button, S_form,
      S_Forms_collect, S_data, S_alert, S_no_such_thing }
Queries ==
    UNION { [1..n -> QueryAlphabet] : n \in 0..MaxQueryLen } \cup SampleQueries

\* Category arguments: the values of the enumeration (the tool's input schema)
\* and one string that differs from a value only in case.
CategoryArguments == { ComponentCategory[i] : i \in 1..Len(ComponentCategory) } \cup { S_form }

SearchArguments ==
    { [query |-> q] : q \in Queries }
    \cup { [query |-> q, category |-> c] : q \in Queries, c \in CategoryArguments }
    \cup { [category |-> ComponentCategory_FORM] }

SearchComponents ==
    /\ request.method = "tools/call"
    /\ request.params.name = "search_components"
    /\ response = Pending
    /\ response' = search_components(request.params.arguments)
    /\ served' = Append(served, << request, response' >>)
    /\ UNCHANGED << catalog, request >>

---------------------------------------------------------------------------
(* tools/call get_component_recommendation                                 *)

\* The keyword table with a rule for "modal", which the catalog does not define.
keywords_withModal ==
    << << S_button, << S_button, S_click, S_action, S_submit, S_cancel >> >>,
       << S_table, << S_table, S_data, S_grid, S_row, S_column, S_list, S_items >> >>,
       << S_form, << S_form, S_input, S_field, S_submit, S_validation, S_enter_data >> >>,
       << S_header, << S_header, S_title, S_heading, S_page_title, S_section_title >> >>,
       << S_box, << S_container, S_box, S_group, S_section, S_panel >> >>,
       << S_alert, << S_alert, S_message, S_notification, S_warning, S_error,
                        S_success, S_info >> >>,
       << S_modal, << S_modal, S_dialog, S_data >> >> >>

\* The keyword table of the handler, in the order of the object literal.
keywords ==
    << << S_button, << S_button, S_click, S_action, S_submit, S_cancel >> >>,
       << S_table, << S_table, S_data, S_grid, S_row, S_column, S_list, S_items >> >>,
       << S_form, << S_form, S_input, S_field, S_submit, S_validation, S_enter_data >> >>,
       << S_header, << S_header, S_title, S_heading, S_page_title, S_section_title >> >>,
       << S_box, << S_container, S_box, S_group, S_section, S_panel >> >>,
       << S_alert, << S_alert, S_message, S_notification, S_warning, S_error,
                        S_success, S_info >> >> >>

\* matches[componentId] = (matches[componentId] || 0) + 1: an own entry is
\* updated in place, a new key is appended after the existing ones.
Increment(matches, componentId) ==
    IF HasOwn(matches, componentId)
    THEN [i \in 1..Len(matches) |->
            IF matches[i][1] = componentId
            THEN << componentId, matches[i][2] + 1 >> ELSE matches[i]]
    ELSE Append(matches, << componentId, 1 >>)

RECURSIVE scanKeywords_swapped(_, _, _, _, _)
scanKeywords_swapped(matches, useCase, componentId, keywordList, k) ==
    IF k > Len(keywordList) THEN matches
    ELSE scanKeywords_swapped(
            IF includes(toLowerCase(keywordList[k]), toLowerCase(useCase))
            THEN Increment(matches, componentId) ELSE matches,
            useCase, componentId, keywordList, k + 1)

\* The inner loop: the keywords of one rule, from the k-th on.
RECURSIVE scanKeywords(_, _, _, _, _)
scanKeywords(matches, useCase, componentId, keywordList, k) ==
    IF k > Len(keywordList) THEN matches
    ELSE scanKeywords(
            IF includes(toLowerCase(useCase), toLowerCase(keywordList[k]))
            THEN Increment(matches, componentId) ELSE matches,
            useCase, componentId, keywordList, k + 1)

\* The outer loop: the rules of the table, from the r-th on.
RECURSIVE scanRules(_, _, _)
scanRules(matches, useCase, r) ==
    IF r > Len(keywords) THEN matches
    ELSE scanRules(scanKeywords(matches, useCase, keywords[r][1], keywords[r][2], 1),
                   useCase, r + 1)

insertSorted_tiesReversed(sorted, entry) ==
    LET behind == { i \in 1..Len(sorted) : sorted[i][2] > entry[2] }
        at == IF behind = {} THEN 0 ELSE CHOOSE i \in behind : \A j \in behind : j <= i
    IN  SubSeq(sorted, 1, at) \o << entry >> \o SubSeq(sorted, at + 1, Len(sorted))

insertSorted_ascending(sorted, entry) ==
    LET behind == { i \in 1..Len(sorted) : sorted[i][2] <= entry[2] }
        at == IF behind = {} THEN 0 ELSE CHOOSE i \in behind : \A j \in behind : j <= i
    IN  SubSeq(sorted, 1, at) \o << entry >> \o SubSeq(sorted, at + 1, Len(sorted))

\* One step of the stable sort with comparator (a, b) => b[1] - a[1]: the
\* entry goes behind every entry whose count is at least its own.
insertSorted(sorted, entry) ==
    LET behind == { i \in 1..Len(sorted) : sorted[i][2] >= entry[2] }
        at == IF behind = {} THEN 0 ELSE CHOOSE i \in behind : \A j \in behind : j <= i
    IN  SubSeq(sorted, 1, at) \o << entry >> \o SubSeq(sorted, at + 1, Len(sorted))

\* Object.entries(matches).sort((a, b) => b[1] - a[1])
RECURSIVE sort(_, _)
sort(entries, n) ==
    IF n = 0 THEN << >> ELSE insertSorted(sort(entries, n - 1), entries[n])

slice3_offByOne(entries) == SubSeq(entries, 1, IF Len(entries) < 4 THEN Len(entries) ELSE 4)

\* .slice(0, 3)
slice3(entries) == SubSeq(entries, 1, IF Len(entries) < 3 THEN Len(entries) ELSE 3)

get_component_recommendation(arguments) ==
    LET useCase == Interpolate(arguments, "use_case")
        matches == scanRules(<< >>, useCase, 1)
        sortedMatches == OwnKeys(slice3(sort(matches, Len(matches))))
    IN  IF Len(sortedMatches) = 0
        THEN [kind |-> "content",
              matches |-> matches,
              sortedMatches |-> sortedMatches,
              text |-> [kind |-> "no recommendation",
                        message |-> S_I_couldnt_find_specific_component_recomm
                                    \o useCase
                                    \o S_QuoteDot_Consider_browsing_the_available]]
        ELSE IF \E i \in 1..Len(sortedMatches) : ~ Renderable(sortedMatches[i])
        THEN Throw("TypeError", S_Cannot_read_properties_of_undefined)
        ELSE [kind |-> "content",
              matches |-> matches,
              sortedMatches |-> sortedMatches,
              text |-> [kind |-> "recommendations",
                        heading |-> S_Hash_Recommended_Components_for_Quote \o useCase \o S_Quote,
                        recommendations |->
                            [i \in 1..Len(sortedMatches) |->
                                LET component == Get(cloudscapeComponents, sortedMatches[i])
                                IN  [heading |-> S_HashHash_LBracket \o Interpolate(component,
                                        "name") \o S_RBracketLParen
                                                 \o component.links.documentation \o S_RParen,
                                     description |-> Interpolate(component, "description"),
                                     usage |-> S_StarStarUsageColonStarStar_ \o Interpolate(component,
                                             "usage")]]]]

\* Use-case texts a client sends: at most MaxWords words of a vocabulary run
\* together (one of the words is a space), the text of the README, and a
\* text with keywords of the last two rules.
Vocabulary ==
    { S_button, S_Click, S_submit, S_data, S_form, S_section_title, S_box, S__ }

RECURSIVE Join(_)
Join(words) == IF words = << >> THEN << >> ELSE Head(words) \o Join(Tail(words))

README_use_case == S_I_need_a_way_to_show_tabular_data_with_s

UseCases ==
    { Join(ws) : ws \in UNION { [1..n -> Vocabulary] : n \in 0..MaxWords } }
    \cup { README_use_case, S_show_an_error_message_in_a_panel }

GetComponentRecommendation ==
    /\ request.method = "tools/call"
    /\ request.params.name = "get_component_recommendation"
    /\ response = Pending
    /\ response' = get_component_recommendation(request.params.arguments)
    /\ served' = Append(served, << request, response' >>)
    /\ UNCHANGED << catalog, request >>


---------------------------------------------------------------------------
(* The two prompt handlers.                                                *)

listPrompts ==
    [kind |-> "prompts",
     prompts |-> << S_cloudscape_best_practices, S_aws_console_patterns >>]

ListPrompts ==
    /\ request.method = "prompts/list"
    /\ response = Pending
    /\ response' = listPrompts
    /\ served' = Append(served, << request, response' >>)
    /\ UNCHANGED << catalog, request >>

\* Object.values(cloudscapeComponents).flatMap(component =>
\*     component.bestPractices.map(practice => `- **${component.name}:** ${practice}`)),
\* for the components from position c on.
RECURSIVE flatMapBestPractices(_, _)
flatMapBestPractices(components, c) ==
    IF c > Len(components) THEN << >>
    ELSE [i \in 1..Len(components[c].bestPractices) |->
             S_Dash_StarStar \o components[c].name \o S_ColonStarStar_ \o components[c].bestPractices[i]]
         \o flatMapBestPractices(components, c + 1)

\* The GetPrompt handler: the prompt's messages, of which only the text built
\* from the catalog varies.
getPrompt(name) ==
    IF name = S_cloudscape_best_practices
    THEN [kind |-> "messages", prompt |-> name,
          bestPractices |-> flatMapBestPractices(OwnValues(cloudscapeComponents), 1)]
    ELSE IF name = S_aws_console_patterns
    THEN [kind |-> "messages", prompt |-> name, bestPractices |-> << >>]
    ELSE Throw("Error", S_Unknown_promptColon_ \o name)

PromptNames == { S_cloudscape_best_practices, S_aws_console_patterns, S_no_such_prompt }

GetPrompt ==
    /\ request.method = "prompts/get"
    /\ response = Pending
    /\ response' = getPrompt(request.params.name)
    /\ served' = Append(served, << request, response' >>)
    /\ UNCHANGED << catalog, request >>

---------------------------------------------------------------------------
(* One request: it arrives at the server as constructed, and the handler   *)
(* registered for its method serves it.                                    *)

Requests ==
    { [method |-> "resources/list"], [method |-> "prompts/list"] }
    \cup { [method |-> "resources/read", params |-> [uri |-> uri]] : uri \in Uris }
    \cup { [method |-> "tools/call",
            params |-> [name |-> "search_components", arguments |-> arguments]] :
           arguments \in SearchArguments }
    \cup { [method |-> "tools/call",
            params |-> [name |-> "get_component_recommendation",
                        arguments |-> [use_case |-> useCase]]] :
           useCase \in UseCases }
    \cup { [method |-> "prompts/get", params |-> [name |-> name]] : name \in PromptNames }

Init ==
    /\ cloudscapeComponents = cloudscapeComponentsData
    /\ componentsByCategory = componentsByCategoryData
    /\ cloudscapePatterns = cloudscapePatternsData
    /\ request \in Requests
    /\ response = Pending
    /\ served = << >>

Next ==
    \/ ListResources
    \/ ReadResource
    \/ SearchComponents
    \/ GetComponentRecommendation
    \/ ListPrompts
    \/ GetPrompt

Spec == Init /\ [][Next]_vars

---------------------------------------------------------------------------
(* A session: the server serves one request after another, each one        *)
(* arriving once the outcome of the previous one has been returned (the    *)
(* handlers do not await, so each runs to completion before the next).     *)

SessionRequests ==
    { [method |-> "resources/list"],
      [method |-> "prompts/list"],
      [method |-> "resources/read",
              params |-> [uri |-> Scheme \o S_component \o S_Slash \o S_button]],
      [method |-> "resources/read",
       params |-> [uri |-> Scheme \o S_component \o S_Slash \o S_does_not_exist]],
      [method |-> "resources/read", params |-> [uri |-> S_not_a_valid_uri]],
      [method |-> "resources/read",
       params |-> [uri |-> Scheme \o S_category \o S_Slash \o ComponentCategory_CHART]],
      [method |-> "tools/call",
       params |-> [name |-> "search_components", arguments |-> [query |-> S_button]]],
      [method |-> "tools/call",
       params |-> [name |-> "search_components",
                   arguments |-> [query |-> S_input_text, category |-> ComponentCategory_FORM]]],
      [method |-> "tools/call",
       params |-> [name |-> "get_component_recommendation",
                   arguments |-> [use_case |-> README_use_case]]],
      [method |-> "prompts/get", params |-> [name |-> S_cloudscape_best_practices]],
      [method |-> "prompts/get", params |-> [name |-> S_no_such_prompt]] }

\* The next request of the session arrives.
Receive ==
    /\ response.kind # "pending"
    /\ Len(served) < MaxRequests
    /\ request' \in SessionRequests
    /\ response' = Pending
    /\ UNCHANGED << catalog, served >>

SessionInit ==
    /\ cloudscapeComponents = cloudscapeComponentsData
    /\ componentsByCategory = componentsByCategoryData
    /\ cloudscapePatterns = cloudscapePatternsData
    /\ request \in SessionRequests
    /\ response = Pending
    /\ served = << >>

SessionNext ==
    \/ ListResources
    \/ ReadResource
    \/ SearchComponents
    \/ GetComponentRecommendation
    \/ ListPrompts
    \/ GetPrompt
    \/ Receive

Session == SessionInit /\ [][SessionNext]_vars

---------------------------------------------------------------------------
(* Properties of read_resource.                                            *)

ReadServed == request.method = "resources/read" /\ response.kind # "pending"

\* The three resource types with the word the handler's messages use for each.
ResourceTypes ==
    << << S_component, S_Component >>,
       << S_pattern, S_Pattern >>,
       << S_category, S_Category >> >>

\* id names an entity of the type in the catalog.
NamesEntity(type, id) ==
    IF type = S_component THEN HasOwn(cloudscapeComponents, id)
    ELSE IF type = S_pattern THEN HasOwn(cloudscapePatterns, id)
    ELSE \E i \in 1..Len(ComponentCategory) : ComponentCategory[i] = id

\* The whole string is cloudscape://<type>/<id>: the scheme, a non-empty type
\* without "/", a "/", and a non-empty id.
HasAddressShape(uri) ==
    \E s \in (Len(Scheme) + 2)..(Len(uri) - 1) :
        /\ SubSeq(uri, 1, Len(Scheme)) = Scheme
        /\ uri[s] = "/"
        /\ \A k \in (Len(Scheme) + 1)..(s - 1) : uri[k] # "/"

\* C1: read_resource on cloudscape://<type>/<id>, with type component, pattern
\* or category and any id that names no entity of that type, fails with the
\* not-found error naming the type and the id; it never returns a document
\* and never fails with another error.
C1_LookupMissIsNotFound ==
    ReadServed =>
        \A k \in 1..Len(ResourceTypes) :
            LET uri == request.params.uri
                address == Scheme \o ResourceTypes[k][1] \o << "/" >>
                id == SubSeq(uri, Len(address) + 1, Len(uri))
            IN  ( /\ Len(uri) > Len(address)
                  /\ SubSeq(uri, 1, Len(address)) = address
                  /\ ~ NamesEntity(ResourceTypes[k][1], id) )
                => /\ response.kind = "error"
                   /\ response.name = "Error"
                   /\ response.message = ResourceTypes[k][2] \o S__ \o id \o S__not_found

\* C2: read_resource fails with the malformed-address error, carrying the
\* original string, for every address that as a whole string does not have the
\* shape cloudscape://<type>/<id>; no such address resolves to an entity.
C2_MalformedAddressRejected ==
    (ReadServed /\ ~ HasAddressShape(request.params.uri))
    => /\ response.kind = "error"
       /\ response.name = "Error"
       /\ response.message = S_Invalid_resource_URI_formatColon_ \o request.params.uri

---------------------------------------------------------------------------
(* Properties of search_components.                                        *)

SearchServed ==
    /\ request.method = "tools/call"
    /\ request.params.name = "search_components"
    /\ response.kind # "pending"
    /\ HasField(request.params.arguments, "query")

\* The components of a sequence, as a set.
Elements(seq) == { seq[i] : i \in 1..Len(seq) }

\* The position of a component in the catalog's definition order.
DefinitionIndex(component) ==
    CHOOSE j \in 1..Len(cloudscapeComponents) : cloudscapeComponents[j][2] = component

\* The result of the same search with another query text, and without the
\* category filter.
SearchWithQuery(query) ==
    search_components([request.params.arguments EXCEPT !.query = query]).filteredComponents
SearchUnfiltered ==
    search_components([query |-> request.params.arguments.query]).filteredComponents

InputTextInForm == [query |-> S_input_text, category |-> ComponentCategory_FORM]

\* C4 as stated: search("input text", "Form") over the shipped catalog returns
\* the Form-category components whose name, description or usage contains
\* "input" or "text", so a non-empty result containing the Form component, and
\* no Table or Notification component.
C4_InputTextInFormFindsForm ==
    (SearchServed /\ request.params.arguments = InputTextInForm) =>
        LET found == response.filteredComponents
            Text(C) == << toLowerCase(C.name), toLowerCase(C.description), toLowerCase(C.usage) >>
        IN  /\ Elements(found) =
                 { C \in Elements(OwnValues(cloudscapeComponents)) :
                     /\ C.category = ComponentCategory_FORM
                     /\ \E f \in 1..3 : \/ includes(Text(C)[f], S_input)
                                        \/ includes(Text(C)[f], S_text) }
            /\ found # << >>
            /\ \E i \in 1..Len(found) : found[i].id = S_form
            /\ \A i \in 1..Len(found) :
                   found[i].category \notin { ComponentCategory_TABLE,
                           ComponentCategory_NOTIFICATION }

\* C4 amended: search("input text", "Form") over the shipped catalog returns no
\* component, because no component's name, description or usage contains the
\* whole query "input text"; so it returns no Table or Notification component.
C4_InputTextInFormFindsNothing ==
    (SearchServed /\ request.params.arguments = InputTextInForm) =>
        /\ response.filteredComponents = << >>
        /\ response.text.kind = "none found"

\* The search for "input text" in category Form has been served.
C4_Witness == SearchServed /\ request.params.arguments = InputTextInForm

\* The upper case of a query.  Character map of toUpperCase: a-z go to A-Z
\* and U+00DF (sharp s), which has
\* no single upper-case character, goes to the two characters "SS".
UpperCaseMap ==
    [c \in {LowerCaseLetters[i] : i \in 1..26} \cup {"ß"} |->
        IF c = "ß" THEN << "S", "S" >>
        ELSE << UpperCaseLetters[CHOOSE i \in 1..26 : LowerCaseLetters[i] = c] >>]

RECURSIVE toUpperCase(_)
toUpperCase(s) ==
    IF s = << >> THEN << >>
    ELSE (IF Head(s) \in DOMAIN UpperCaseMap THEN UpperCaseMap[Head(s)] ELSE << Head(s) >>)
         \o toUpperCase(Tail(s))

\* Characters of the model's alphabet outside ASCII.
NonAscii == { "ß", "U+2013" }

\* C9 as stated: for every query q and optional category K, search of
\* uppercase(q), of lowercase(q) and of q return the same sequence.
C9_SearchIgnoresCase ==
    SearchServed =>
        /\ SearchWithQuery(toUpperCase(request.params.arguments.query)) = response.filteredComponents
        /\ SearchWithQuery(toLowerCase(request.params.arguments.query)) = response.filteredComponents

\* C9 amended: for every query q and optional category K, search of
\* lowercase(q) and of q return the same sequence, and so does search of
\* uppercase(q) when q consists of ASCII characters.
C9_SearchIgnoresAsciiCase ==
    SearchServed =>
        LET q == request.params.arguments.query
        IN  /\ SearchWithQuery(toLowerCase(q)) = response.filteredComponents
            /\ (\A i \in 1..Len(q) : q[i] \notin NonAscii)
               => SearchWithQuery(toUpperCase(q)) = response.filteredComponents

\* A query with upper-case letters, which differs from its lower case, has
\* found components.
C9_Witness ==
    /\ SearchServed
    /\ toLowerCase(request.params.arguments.query) # request.params.arguments.query
    /\ toUpperCase(request.params.arguments.query) = request.params.arguments.query
    /\ Len(request.params.arguments.query) >= 2
    /\ response.filteredComponents # << >>

\* C10: for every query q and category K of the enumeration, every component
\* search(q, K) returns is returned by search(q) without filter and its id is
\* listed in componentsByCategory[K].
C10_FilteredIsSubsetOfUnfilteredAndCategory ==
    ( /\ SearchServed
      /\ HasField(request.params.arguments, "category")
      /\ \E i \in 1..Len(ComponentCategory) :
             ComponentCategory[i] = request.params.arguments.category )
    => \A C \in Elements(response.filteredComponents) :
           /\ C \in Elements(SearchUnfiltered)
           /\ C.id \in Elements(Get(componentsByCategory, request.params.arguments.category))

\* A search filtered by a category of the enumeration has returned components,
\* and the unfiltered search of the same query returns more.
C10_Witness ==
    /\ SearchServed
    /\ HasField(request.params.arguments, "category")
    /\ response.filteredComponents # << >>
    /\ Len(SearchUnfiltered) > Len(response.filteredComponents)

---------------------------------------------------------------------------
(* Properties of get_component_recommendation.                             *)

RecommendServed ==
    /\ request.method = "tools/call"
    /\ request.params.name = "get_component_recommendation"
    /\ response.kind # "pending"

\* The component ids of the keyword table, and a rule's place in the table.
RuleIds == Elements(OwnKeys(keywords))
RuleIndex(id) == CHOOSE r \in 1..Len(keywords) : keywords[r][1] = id

\* The match counter of a component for a use-case text: how many distinct
\* keywords of its rule occur in the lower-case text.
Counter(id, useCase) ==
    LET text == toLowerCase(useCase)
    IN  Cardinality({ keyword \in Elements(Get(keywords, id)) : includes(text, keyword) })

\* X is ranked before Y: by counter descending, equal counters by rule order.
RankedBefore(X, Y, useCase) ==
    \/ Counter(X, useCase) > Counter(Y, useCase)
    \/ /\ Counter(X, useCase) = Counter(Y, useCase)
       /\ RuleIndex(X) < RuleIndex(Y)

\* The whole ranking the handler computes for a text, before it is cut to 3,
\* and a component's position in a ranking (behind the last when not in it).
Ranking(useCase) ==
    LET matches == scanRules(<< >>, useCase, 1)
    IN  OwnKeys(sort(matches, Len(matches)))
Position(id, ranking) ==
    IF id \in Elements(ranking)
    THEN CHOOSE i \in 1..Len(ranking) : ranking[i] = id
    ELSE Len(keywords) + 1

\* C5: recommend returns at most 3 ids, every returned id has a nonzero
\* counter, and the no-recommendation result is returned if and only if every
\* rule's counter is zero.
C5_AtMostThreeAndSentinelIffNoMatch ==
    RecommendServed =>
        LET useCase == request.params.arguments.use_case
            returned == response.sortedMatches
        IN  /\ Len(returned) <= 3
            /\ \A i \in 1..Len(returned) : Counter(returned[i], useCase) > 0
            /\ response.text.kind = "no recommendation"
               <=> \A id \in RuleIds : Counter(id, useCase) = 0

\* A text matching more than 3 rules has been served: 3 ids were returned.
C5_Witness ==
    /\ RecommendServed
    /\ Len(response.sortedMatches) = 3
    /\ Cardinality({ id \in RuleIds : Counter(id, request.params.arguments.use_case) > 0 }) > 3

\* C6: a component's counter is the number of distinct keywords of its rule
\* occurring in the lower-case text, and the result lists the components with
\* nonzero counter by counter descending, equal counters in rule-definition
\* order, cut to the first 3.
C6_RankedByCounterThenRuleOrder ==
    RecommendServed =>
        LET useCase == request.params.arguments.use_case
            returned == response.sortedMatches
            Matched == { id \in RuleIds : Counter(id, useCase) > 0 }
        IN  /\ \A id \in RuleIds :
                   IF HasOwn(response.matches, id)
                   THEN Get(response.matches, id) = Counter(id, useCase) /\ id \in Matched
                   ELSE Counter(id, useCase) = 0
            /\ Elements(returned) \subseteq Matched
            /\ Len(returned) = (IF Cardinality(Matched) < 3 THEN Cardinality(Matched) ELSE 3)
            /\ \A i \in 1..Len(returned) :
                   /\ \A k \in (i + 1)..Len(returned) :
                          RankedBefore(returned[i], returned[k], useCase)
                   /\ \A id \in Matched \ Elements(returned) :
                          RankedBefore(returned[i], id, useCase)

\* Two components with equal counters were returned in rule order, table
\* before form, which is not the order of their ids.
C6_Witness ==
    /\ RecommendServed
    /\ \E i \in 1..(Len(response.sortedMatches) - 1) :
           /\ response.sortedMatches[i] = S_table
           /\ response.sortedMatches[i + 1] = S_form
           /\ Counter(S_table, request.params.arguments.use_case)
              = Counter(S_form, request.params.arguments.use_case)

\* The counters of all rules for a text.
Counters(useCase) == [id \in RuleIds |-> Counter(id, useCase)]

\* The extension contains a keyword of X's rule that the text did not contain.
AddsKeywordOf(X, useCase, extension) ==
    \E keyword \in Elements(Get(keywords, X)) :
        /\ includes(toLowerCase(extension), keyword)
        /\ ~ includes(toLowerCase(useCase), keyword)

\* X is not ranked worse in the ranking of the extended text than in the
\* ranking of the text, and stays in the returned 3.
KeepsRank(X, ranking, extended) ==
    /\ Position(X, extended) <= Position(X, ranking)
    /\ X \in Elements(slice3(ranking)) => X \in Elements(slice3(extended))

\* C7 as stated: extending a use-case text with text that contains further
\* keywords of X's rule never moves X to a worse position of the ranking and
\* never removes X from the returned top 3.
C7_MoreKeywordsNeverLowerRank ==
    RecommendServed =>
        LET useCase == request.params.arguments.use_case
            ranking == Ranking(useCase)
        IN  \A extension \in Vocabulary :
                LET extended == Ranking(useCase \o extension)
                IN  \A X \in RuleIds :
                        AddsKeywordOf(X, useCase, extension) => KeepsRank(X, ranking, extended)

\* C7 amended: extending a use-case text with text that contains further
\* keywords of X's rule, and that raises no other component's counter by more
\* than it raises X's, never moves X to a worse position of the ranking and
\* never removes X from the returned top 3.
C7_MoreKeywordsOfXAloneNeverLowerRank ==
    RecommendServed =>
        LET useCase == request.params.arguments.use_case
            ranking == Ranking(useCase)
            before == Counters(useCase)
        IN  \A extension \in Vocabulary :
                LET extended == Ranking(useCase \o extension)
                    after == Counters(useCase \o extension)
                IN  \A X \in RuleIds :
                        ( /\ AddsKeywordOf(X, useCase, extension)
                          /\ \A Y \in RuleIds \ { X } :
                                 after[Y] - before[Y] <= after[X] - before[X] )
                        => KeepsRank(X, ranking, extended)

\* A served text ranks X behind another component, and an extension with a
\* further keyword of X, raising no other counter by more, ranks X first.
C7_Witness ==
    /\ RecommendServed
    /\ LET useCase == request.params.arguments.use_case
           ranking == Ranking(useCase)
           before == Counters(useCase)
       IN  \E extension \in Vocabulary :
               LET extended == Ranking(useCase \o extension)
                   after == Counters(useCase \o extension)
               IN  \E X \in RuleIds :
                       /\ AddsKeywordOf(X, useCase, extension)
                       /\ \A Y \in RuleIds \ { X } :
                              after[Y] - before[Y] <= after[X] - before[X]
                       /\ X \in Elements(ranking)
                       /\ Position(X, ranking) > 1
                       /\ Position(X, extended) = 1

\* C8: recommend of the README's use case returns a recommendation, not the
\* no-recommendation result, whose first entry is the table component.
C8_TabularDataRecommendsTable ==
    (RecommendServed /\ request.params.arguments.use_case = README_use_case) =>
        /\ response.text.kind = "recommendations"
        /\ response.sortedMatches # << >>
        /\ response.sortedMatches[1] = S_table

\* The README's use case has been served.
C8_Witness ==
    /\ RecommendServed
    /\ request.params.arguments.use_case = README_use_case
    /\ response.kind = "content"


---------------------------------------------------------------------------
(* Properties of the catalog.                                              *)

\* The membership list of a category: componentsByCategory[category] || [].
CategoryMembers(category) ==
    IF HasOwn(componentsByCategory, category) THEN Get(componentsByCategory, category)
    ELSE << >>

\* C11: for every component C of the catalog, looking up C.id returns C (the
\* map key is C.id and no other entry has that id), C.category is a key of the
\* category index, and C.id is in the membership list of C.category.
C11_ComponentsAreKeyedByIdAndIndexedByCategory ==
    \A i \in 1..Len(cloudscapeComponents) :
        LET C == cloudscapeComponents[i][2]
        IN  /\ cloudscapeComponents[i][1] = C.id
            /\ \A j \in 1..Len(cloudscapeComponents) :
                   (cloudscapeComponents[j][1] = C.id \/ cloudscapeComponents[j][2].id = C.id)
                   => j = i
            /\ HasOwn(cloudscapeComponents, C.id)
            /\ Get(cloudscapeComponents, C.id) = C
            /\ HasOwn(componentsByCategory, C.category)
            /\ C.id \in Elements(CategoryMembers(C.category))

\* A component has been read by its id and the category overview of its
\* category has the entries of its members.
C11_Witness ==
    /\ ReadServed
    /\ \E i \in 1..Len(cloudscapeComponents) :
           LET C == cloudscapeComponents[i][2]
           IN  /\ request.params.uri = Scheme \o S_component \o S_Slash \o C.id
               /\ response.kind = "contents"
               /\ response.text = formatComponentAsMarkdown(C)
               /\ Len(CategoryMembers(C.category)) > 1

\* C12: for every category K of the enumeration, every id in the membership
\* list of K names a component of the catalog, and that component's category
\* is K.
C12_MembersBelongToTheirCategory ==
    \A k \in 1..Len(ComponentCategory) :
        LET K == ComponentCategory[k]
        IN  \A m \in 1..Len(CategoryMembers(K)) :
                /\ HasOwn(cloudscapeComponents, CategoryMembers(K)[m])
                /\ Get(cloudscapeComponents, CategoryMembers(K)[m]).category = K

\* The overview of a category with two members has been read: it has one
\* entry for each of them.
C12_Witness ==
    /\ ReadServed
    /\ \E k \in 1..Len(ComponentCategory) :
           /\ request.params.uri = Scheme \o S_category \o S_Slash \o ComponentCategory[k]
           /\ Len(CategoryMembers(ComponentCategory[k])) = 2
           /\ response.kind = "contents"
           /\ Len(response.text.body) = 2

---------------------------------------------------------------------------
(* Properties of list_resources.                                           *)

ListServed == request.method = "resources/list" /\ response.kind # "pending"

\* The address of an entity: cloudscape://<type>/<id>.
Address(type, id) == Scheme \o type \o S_Slash \o id

\* The number of listed entries with that address.
Listed(resources, address) ==
    Cardinality({ i \in 1..Len(resources) : resources[i].uri = address })

\* C13: list_resources returns exactly one entry per component, one per
\* pattern and one per value of the category enumeration, none missing and
\* none twice, and every entry's address is cloudscape://<type>/<id> with the
\* entity's type and id.
C13_ListHasOneEntryPerEntity ==
    ListServed =>
        LET resources == response.resources
            addresses ==
                { Address(S_component, cloudscapeComponents[i][2].id) :
                    i \in 1..Len(cloudscapeComponents) }
                \cup { Address(S_pattern, cloudscapePatterns[i][1]) :
                         i \in 1..Len(cloudscapePatterns) }
                \cup { Address(S_category, ComponentCategory[i]) :
                         i \in 1..Len(ComponentCategory) }
        IN  /\ response.kind = "resources"
            /\ \A address \in addresses : Listed(resources, address) = 1
            /\ \A i \in 1..Len(resources) :
                   /\ resources[i].uri \in addresses
                   /\ HasAddressShape(resources[i].uri)
            /\ Len(resources) = Len(cloudscapeComponents) + Len(cloudscapePatterns)
                                + Len(ComponentCategory)

\* The listing has been served, with entries of all three types.
C13_Witness ==
    /\ ListServed
    /\ Listed(response.resources, Address(S_component, S_button)) = 1
    /\ Listed(response.resources, Address(S_pattern, S_empty_state)) = 1
    /\ Listed(response.resources, Address(S_category, ComponentCategory_CHART)) = 1

---------------------------------------------------------------------------
(* Properties of the documents read_resource returns.                      *)

\* C14: read_resource("cloudscape://component/button"), and likewise the
\* address of every component of the catalog, succeeds with a document whose
\* heading is the component's name and whose best-practices section lists
\* exactly the component's bestPractices entries, each once, in definition
\* order.
C14_ComponentDocumentHasNameAndBestPractices ==
    ReadServed =>
        \A i \in 1..Len(cloudscapeComponents) :
            LET C == cloudscapeComponents[i][2]
            IN  request.params.uri = Address(S_component, C.id)
                => /\ response.kind = "contents"
                   /\ response.uri = request.params.uri
                   /\ response.text.heading = S_Hash_ \o C.name
                   /\ Len(response.text.bestPractices) = Len(C.bestPractices)
                   /\ \A b \in 1..Len(C.bestPractices) :
                          response.text.bestPractices[b] = S_Dash_ \o C.bestPractices[b]

\* The Button component has been read: the document has its four best
\* practices.
C14_Witness ==
    /\ ReadServed
    /\ request.params.uri = Address(S_component, S_button)
    /\ response.kind = "contents"
    /\ response.text.heading = S_Hash_ \o button_name
    /\ Len(response.text.bestPractices) = 4

---------------------------------------------------------------------------
(* Properties of a session.                                                *)

\* C15: after any sequence of requests (list_resources, read_resource, search,
\* recommend, list or get prompt, in any order, succeeding or failing) the
\* component map, the pattern map and the category index are as they were at
\* startup; the keyword table is built anew by every recommendation.
C15_CatalogIsNeverChanged ==
    /\ cloudscapeComponents = cloudscapeComponentsData
    /\ cloudscapePatterns = cloudscapePatternsData
    /\ componentsByCategory = componentsByCategoryData

\* A session has served as many requests as it may send, some of which
\* failed and some of which returned a document.
C15_Witness ==
    /\ Len(served) = MaxRequests
    /\ \E k \in 1..Len(served) : served[k][2].kind = "error"
    /\ \E k \in 1..Len(served) : served[k][2].kind = "contents"
    /\ \E k \in 1..Len(served) : served[k][2].kind = "content"

\* C16: the outcome of a request is a function of its arguments only: the same
\* request has the same outcome wherever in a session it is served, whatever
\* was served before it or between two of its occurrences; a failed request
\* repeated fails identically and changes no later outcome.
C16_OutcomeDependsOnArgumentsOnly ==
    \A i, j \in 1..Len(served) :
        served[i][1] = served[j][1] => served[i][2] = served[j][2]

\* A request that succeeds has been served twice, with a request that failed
\* served in between.
C16_Witness ==
    \E i, j, k \in 1..Len(served) :
        /\ i < j /\ j < k
        /\ served[i][1] = served[k][1]
        /\ served[i][2].kind # "error"
        /\ served[j][2].kind = "error"

---------------------------------------------------------------------------
(* Properties of the usage text in the renderings.                         *)

\* Length of the usage prefix a search result shows.
UsagePrefixLength == 150

\* C17: a search result shows a component's usage as its first 150 characters
\* followed by "..." if and only if the usage is longer than 150 characters,
\* and whole without the marker otherwise; the document read_resource returns
\* for a component shows the whole usage.
C17_UsageIsCutInSearchResultsOnly ==
    /\ (SearchServed /\ response.text.kind = "results") =>
           \A i \in 1..Len(response.filteredComponents) :
               LET usage == response.filteredComponents[i].usage
                   shown == response.text.results[i].usage
               IN  IF Len(usage) > UsagePrefixLength
                   THEN shown = S_StarStarUsageColonStarStar_ \o SubSeq(usage, 1,
                           UsagePrefixLength) \o S_DotDotDot
                   ELSE shown = S_StarStarUsageColonStarStar_ \o usage
    /\ ReadServed =>
           \A i \in 1..Len(cloudscapeComponents) :
               request.params.uri = Address(S_component, cloudscapeComponents[i][2].id)
               => /\ response.kind = "contents"
                  /\ response.text.usage = cloudscapeComponents[i][2].usage

\* A search has returned a component whose usage is longer than 150
\* characters and one whose usage is shorter.
C17_Witness ==
    /\ SearchServed
    /\ response.text.kind = "results"
    /\ \E i, j \in 1..Len(response.filteredComponents) :
           /\ Len(response.filteredComponents[i].usage) > UsagePrefixLength
           /\ Len(response.text.results[i].usage) = Len(S_StarStarUsageColonStarStar_) + UsagePrefixLength + Len(S_DotDotDot)
           /\ Len(response.filteredComponents[j].usage) < UsagePrefixLength
           /\ Len(response.text.results[j].usage) =
                  Len(S_StarStarUsageColonStarStar_) + Len(response.filteredComponents[j].usage)

---------------------------------------------------------------------------
(* Properties relating list_resources to read_resource.                    *)

\* C18: every address list_resources returns is accepted by read_resource:
\* reading it returns the document of the entity the entry was built from
\* (its heading is the entry's name), never a failure, also for a category
\* without members.
C18_ListedAddressesAreReadable ==
    \A k \in 1..Len(served) :
        served[k][1].method = "resources/list" =>
            /\ served[k][2].kind = "resources"
            /\ \A e \in 1..Len(served[k][2].resources) :
                   LET entry == served[k][2].resources[e]
                       read == readResource(entry.uri)
                   IN  /\ read.kind = "contents"
                       /\ read.uri = entry.uri
                       /\ read.text.kind = "markdown"
                       /\ read.text.heading = S_Hash_ \o entry.name

\* The listing has been served and then a listed address, of a category
\* without members, has been read and returned its document.
C18_Witness ==
    \E k, j \in 1..Len(served) :
        /\ k < j
        /\ served[k][1].method = "resources/list"
        /\ served[j][1].method = "resources/read"
        /\ \E e \in 1..Len(served[k][2].resources) :
               served[k][2].resources[e].uri = served[j][1].params.uri
        /\ CategoryMembers(ComponentCategory_CHART) = << >>
        /\ served[j][1].params.uri = Address(S_category, ComponentCategory_CHART)
        /\ served[j][2].kind = "contents"
        /\ served[j][2].text.body = << S_No_components_in_this_category_yetDot >>

---------------------------------------------------------------------------
(* Properties relating the keyword table to the catalog.                   *)

\* C19: every component id recommend can return, for any use-case text, is
\* the id of a component of the catalog (the keys of the keyword table are
\* among the catalog's component ids), so that rendering a recommendation
\* never reads a missing component.
C19_RecommendedIdsAreInTheCatalog ==
    /\ \A r \in 1..Len(keywords) :
           /\ HasOwn(cloudscapeComponents, keywords[r][1])
           /\ Get(cloudscapeComponents, keywords[r][1]).id = keywords[r][1]
    /\ RecommendServed =>
           /\ response.kind = "content"
           /\ \A i \in 1..Len(response.sortedMatches) :
                  HasOwn(cloudscapeComponents, response.sortedMatches[i])
           /\ response.text.kind = "recommendations" =>
                  /\ Len(response.text.recommendations) = Len(response.sortedMatches)
                  /\ \A i \in 1..Len(response.sortedMatches) :
                         LET component == Get(cloudscapeComponents, response.sortedMatches[i])
                         IN  response.text.recommendations[i].description
                                 = component.description

\* Recommendations of the last two rules of the table have been rendered.
C19_Witness ==
    /\ RecommendServed
    /\ response.kind = "content"
    /\ response.sortedMatches = << S_alert, S_box >>
    /\ response.text.kind = "recommendations"
    /\ Len(response.text.recommendations) = 2

=============================================================================
